---- MODULE Spec2Model ----
(***************************************************************************)
(* WatchVIM frontend (src/app.js): the watch-progress store, the catalog   *)
(* index it is joined against, the player that feeds it, normalizeCatalog  *)
(* and the scheduler of the LIVE loop channel.                             *)
(*                                                                         *)
(* Numbers of seconds (progressSec, durationSec, currentTime, duration)    *)
(* are held in units of 1/TicksPerSec second, so that the sub-second media *)
(* durations a player reports exist in the model.  A ratio is an exact     *)
(* fraction <<numerator, denominator>> in lowest terms.  A JavaScript      *)
(* value that may be undefined is a sequence: <<>> for undefined, <<v>>    *)
(* for the value v.                                                        *)
(***************************************************************************)
EXTENDS Integers, Sequences, FiniteSets, TLC

VARIABLES
  now,        \* Date.now(), in milliseconds
  storage,    \* localStorage item under state.lastWatchedKey
  catalog,    \* state.catalog (<<>> before the first load)
  byId,       \* state.byId, the entity index
  route,      \* state.route
  player,     \* the mounted player element, its listeners and media state
  loop,       \* state.loop
  view,       \* what #app shows: "loading", "page", "error" or "ad"
  loopPlayer, \* the #loopPlayer element of the page and the skip timers set
  pc,         \* where boot() is: "boot" until loadData() has settled
  hist,       \* history: the queue at the start of the rotation cycle and
              \* the playNextLoop calls made since
  call,       \* the operation or event handled last, with its arguments
  ret         \* what that operation returned, or that it threw

vars == <<now, storage, catalog, byId, route, player, loop, view, loopPlayer,
         pc, hist, call, ret>>

-----------------------------------------------------------------------------
(* Bounds of the model *)

TicksPerSec == 2
MaxTicks == 1

\* how many times normalizeCatalog is run over one document
MaxRuns == 2

-----------------------------------------------------------------------------
(* Program constants *)

LogCap == 30
ThrottleMs == 5000

undefined == "<undefined>"

Falsy(s) == s \in {"", undefined}

-----------------------------------------------------------------------------
(* Arithmetic helpers *)

Max(a, b) == IF a >= b THEN a ELSE b

Min(a, b) == IF a <= b THEN a ELSE b

Abs(a) == IF a < 0 THEN -a ELSE a

RECURSIVE GCD(_, _)
GCD(a, b) == IF b = 0 THEN a ELSE GCD(b, a % b)

\* the quotient p / d (d > 0) as a fraction in lowest terms
Quot(p, d) ==
  LET g == GCD(Abs(p), d) IN <<p \div g, d \div g>>

\* fraction f <= 0.92
Below92_Inclusive(f) == f[1] * 100 <= 92 * f[2]

\* fraction f < 0.92
Below92(f) == f[1] * 100 < 92 * f[2]

-----------------------------------------------------------------------------
(* Catalog documents and normalizeCatalog *)

\* a JSON array
Arr(items) == [js |-> "array", items |-> items]

\* a field that is missing (or null): falsy
Absent == [js |-> "undefined", items |-> <<>>]

\* a truthy value that is no array: it has no forEach and no length
NotArr == [js |-> "object", items |-> <<>>]

\* a null entry of an array
Null == [js |-> "null"]

Ep(id, content, trailer) ==
  [js |-> "object", id |-> id, type |-> undefined,
   contentPlaybackId |-> content, trailerPlaybackId |-> trailer,
   seasons |-> Absent,
   __seriesId |-> undefined, __seasonIndex |-> <<>>, __epIndex |-> <<>>]

Season(episodes) == [js |-> "object", episodes |-> episodes]

Title(id, type, content, trailer, seasons) ==
  [js |-> "object", id |-> id, type |-> type,
   contentPlaybackId |-> content, trailerPlaybackId |-> trailer,
   seasons |-> seasons,
   __seriesId |-> undefined, __seasonIndex |-> <<>>, __epIndex |-> <<>>]

\* a catalog document; loopChannel is <<>> when the document has none, and
\* it carries no explicit featured list
Doc(titles, publishedTitles, loopChannel) ==
  [titles |-> titles, publishedTitles |-> publishedTitles,
   loopChannel |-> loopChannel,
   featuredTitles |-> Absent, featured |-> Absent, hero |-> Absent,
   heroItems |-> Absent, featuredItems |-> Absent]

DocA ==
  Doc(Arr(<<
        Title("t1", "films", "pb_t1", "tr_t1", Absent),
        Title("s1", "series", "", "tr_s1",
              Arr(<< Season(Arr(<< Ep("", "pb_e1", ""),
                                   Ep("", "", "tr_e2") >>)) >>)) >>),
      Absent, <<>>)

DocB ==
  Doc(Arr(<<
        Title("t2", "films", "pb_t2", "", Absent),
        Title("s1", "series", "", "tr_s1",
              Arr(<< Season(Arr(<< Ep("", "pb_e1", "") >>)) >>)) >>),
      Absent, <<>>)

Catalogs == {DocA, DocB}

\* a value inside a template literal
Str(v) == IF v = undefined THEN "undefined" ELSE v

DerivedId_ZeroBased(tid, si, ei) ==
  Str(tid) \o "_s" \o ToString(si) \o "e" \o ToString(ei)

\* `${t.id}_s${si + 1}e${ei + 1}` with 0-based si, ei
DerivedId(tid, si, ei) ==
  Str(tid) \o "_s" \o ToString(si + 1) \o "e" \o ToString(ei + 1)

NormEp_Prefix(ep, tid, si, ei) ==
  [ep EXCEPT !.id = IF Falsy(@) THEN DerivedId(tid, si, ei)
                    ELSE Str(tid) \o "_" \o @,
             !.__seriesId = tid, !.__seasonIndex = <<si>>,
             !.__epIndex = <<ei>>]

\* the episode ep after the body of the innermost forEach (si, ei 0-based)
NormEp(ep, tid, si, ei) ==
  [ep EXCEPT !.id = IF Falsy(@) THEN DerivedId(tid, si, ei) ELSE @,
             !.__seriesId = tid, !.__seasonIndex = <<si>>,
             !.__epIndex = <<ei>>]

\* byId.set(k, v)
MapSet(m, k, v) == [x \in DOMAIN m \cup {k} |-> IF x = k THEN v ELSE m[x]]

EmptyMap == [x \in {} |-> x]

\* The walk of normalizeCatalog.  acc = [threw, titles, refs]: titles is the
\* array being mutated in place, refs maps each key of byId to the place of
\* the object stored under it: <<i>> a title, <<i, si, ei>> an episode
\* (1-based places).  A TypeError stops the walk where it happens.
RECURSIVE EachEpisode(_, _, _, _)
EachEpisode(acc, i, si, ei) ==
  LET t == acc.titles[i]
      eps == t.seasons.items[si].episodes.items IN
  IF acc.threw \/ ei > Len(eps) THEN acc
  ELSE IF eps[ei].js = "null" THEN [acc EXCEPT !.threw = TRUE]
  ELSE LET ep == NormEp(eps[ei], t.id, si - 1, ei - 1) IN
       EachEpisode(
         [threw |-> FALSE,
          titles |-> [acc.titles EXCEPT
                        ![i].seasons.items[si].episodes.items[ei] = ep],
          refs |-> MapSet(acc.refs, ep.id, <<i, si, ei>>)],
         i, si, ei + 1)

RECURSIVE EachSeason(_, _, _)
EachSeason(acc, i, si) ==
  LET seasons == acc.titles[i].seasons.items IN
  IF acc.threw \/ si > Len(seasons) THEN acc
  ELSE IF seasons[si].js = "null" THEN [acc EXCEPT !.threw = TRUE]
  ELSE IF seasons[si].episodes.js = "object"
  THEN [acc EXCEPT !.threw = TRUE]
  ELSE EachSeason(EachEpisode(acc, i, si, 1), i, si + 1)

RECURSIVE EachTitle(_, _)
EachTitle(acc, i) ==
  IF acc.threw \/ i > Len(acc.titles) THEN acc
  ELSE IF acc.titles[i].js = "null" THEN [acc EXCEPT !.threw = TRUE]
  ELSE LET t == acc.titles[i]
           a1 == [acc EXCEPT !.refs = MapSet(@, t.id, <<i>>)] IN
       IF t.type # "series" THEN EachTitle(a1, i + 1)
       ELSE IF t.seasons.js = "object" THEN [a1 EXCEPT !.threw = TRUE]
       ELSE EachTitle(EachSeason(a1, i, 1), i + 1)

\* the object at a place of refs
Deref(titles, path) ==
  IF Len(path) = 1 THEN titles[path[1]]
  ELSE titles[path[1]].seasons.items[path[2]].episodes.items[path[3]]

\* catalog.titles || catalog.publishedTitles || []: the field that is walked
TitlesField(doc) ==
  IF doc.titles.js # "undefined" THEN "titles"
  ELSE IF doc.publishedTitles.js # "undefined" THEN "publishedTitles"
  ELSE "none"

\* normalizeCatalog(doc): threw, or the returned titles and byId; refs are
\* the places behind byId and doc is the document after the in-place mutation
normalizeCatalog(doc) ==
  LET f == TitlesField(doc)
      coll == IF f = "none" THEN Arr(<<>>) ELSE doc[f]
      r == IF coll.js = "object"
           THEN [threw |-> TRUE, titles |-> <<>>, refs |-> EmptyMap]
           ELSE EachTitle([threw |-> FALSE, titles |-> coll.items,
                           refs |-> EmptyMap], 1) IN
  [threw |-> r.threw,
   titles |-> r.titles,
   refs |-> IF r.threw THEN EmptyMap ELSE r.refs,
   byId |-> IF r.threw THEN EmptyMap
            ELSE [k \in DOMAIN r.refs |-> Deref(r.titles, r.refs[k])],
   doc |-> IF f = "none" \/ coll.js = "object" THEN doc
           ELSE [doc EXCEPT ![f].items = r.titles]]

-----------------------------------------------------------------------------
(* The persisted progress log *)

\* an element of the stored array that is a record object
Rec(refType, refId, routeHash, progressSec, durationSec, ratio, updatedAt) ==
  [js |-> "object", refType |-> refType, refId |-> refId,
   routeHash |-> routeHash, progressSec |-> progressSec,
   durationSec |-> durationSec, ratio |-> ratio, updatedAt |-> updatedAt]

\* an element that is not an object: JSON null, or a number/string/boolean
NonRec(js) ==
  [js |-> js, refType |-> undefined, refId |-> undefined,
   routeHash |-> undefined, progressSec |-> 0, durationSec |-> 0,
   ratio |-> <<>>, updatedAt |-> 0]

\* localStorage.getItem(key): absent, "", text that is not JSON, JSON that is
\* not an array, or a JSON array
Stored(kind, items) == [kind |-> kind, items |-> items]

NoItem == Stored("missing", <<>>)

\* JSON.parse(localStorage.getItem(key) || "[]") under try/catch
readLastWatched(st) ==
  CASE st.kind \in {"missing", "empty"} -> [array |-> TRUE, items |-> <<>>]
    [] st.kind = "unparseable"          -> [array |-> TRUE, items |-> <<>>]
    [] st.kind = "nonarray"             -> [array |-> FALSE, items |-> <<>>]
    [] st.kind = "array"                -> [array |-> TRUE, items |-> st.items]

\* saveLastWatched without the slice
saveLastWatched_NoSlice(items) == Stored("array", items)

\* localStorage.setItem(key, JSON.stringify(items.slice(0, 30)))
saveLastWatched(items) ==
  Stored("array", SubSeq(items, 1, Min(LogCap, Len(items))))

\* the key comparison without the refType conjunct
SameKey_RefIdOnly(x, refType, refId) == x.refId = refId

\* x.refId === item.refId && x.refType === item.refType
SameKey(x, refType, refId) == x.refId = refId /\ x.refType = refType

\* reading a property of JSON null raises TypeError
Throws(x) == x.js = "null"

RECURSIVE FilterOut(_, _, _)
FilterOut(items, refType, refId) ==
  IF items = <<>> THEN <<>>
  ELSE LET x == Head(items)
           rest == FilterOut(Tail(items), refType, refId) IN
       IF SameKey(x, refType, refId) THEN rest ELSE <<x>> \o rest

\* result of an operation: threw, or completed with a value
Threw == [threw |-> TRUE, value |-> <<>>]

Returned(v) == [threw |-> FALSE, value |-> v]

\* upsertWatchItem that pushes the new record at the tail
upsertWatchItem_Push(st, item, t) ==
  LET read == readLastWatched(st) IN
  IF ~read.array \/ \E i \in 1..Len(read.items) : Throws(read.items[i])
  THEN [threw |-> TRUE, storage |-> st]
  ELSE [threw |-> FALSE,
        storage |-> saveLastWatched(
          FilterOut(read.items, item.refType, item.refId)
            \o <<[item EXCEPT !.updatedAt = t]>>)]

\* upsertWatchItem without the filter of line 355
upsertWatchItem_NoFilter(st, item, t) ==
  LET read == readLastWatched(st) IN
  IF ~read.array \/ \E i \in 1..Len(read.items) : Throws(read.items[i])
  THEN [threw |-> TRUE, storage |-> st]
  ELSE [threw |-> FALSE,
        storage |-> saveLastWatched(
          <<[item EXCEPT !.updatedAt = t]>> \o read.items)]

\* upsertWatchItem that stamps every record it keeps
upsertWatchItem_Restamp(st, item, t) ==
  LET read == readLastWatched(st)
      kept == FilterOut(read.items, item.refType, item.refId) IN
  IF ~read.array \/ \E i \in 1..Len(read.items) : Throws(read.items[i])
  THEN [threw |-> TRUE, storage |-> st]
  ELSE [threw |-> FALSE,
        storage |-> saveLastWatched(
          <<[item EXCEPT !.updatedAt = t]>>
            \o [i \in 1..Len(kept) |-> [kept[i] EXCEPT !.updatedAt = t]])]

\* upsertWatchItem(item) at time t: the storage afterwards, or a throw
upsertWatchItem(st, item, t) ==
  LET read == readLastWatched(st) IN
  IF ~read.array \/ \E i \in 1..Len(read.items) : Throws(read.items[i])
  THEN [threw |-> TRUE, storage |-> st]
  ELSE [threw |-> FALSE,
        storage |-> saveLastWatched(
          <<[item EXCEPT !.updatedAt = t]>>
            \o FilterOut(read.items, item.refType, item.refId))]

\* the guard of recordProgress without the refId test
Rejected_NoRefId(a) ==
  \/ a.durationSec = <<>>
  \/ a.durationSec[1] = 0
  \/ a.durationSec[1] <= 0

\* the guard of recordProgress: !refId || !durationSec || durationSec <= 0
Rejected(a) ==
  \/ Falsy(a.refId)
  \/ a.durationSec = <<>>
  \/ a.durationSec[1] = 0
  \/ a.durationSec[1] <= 0

\* recordProgress that stores progressSec and durationSec as passed
recordProgress_NoClamp(st, a, t) ==
  IF Rejected(a) THEN [threw |-> FALSE, storage |-> st]
  ELSE LET ratio == Quot(a.progressSec, a.durationSec[1]) IN
       upsertWatchItem(st,
         Rec(a.refType, a.refId, a.routeHash,
             a.progressSec, a.durationSec[1], ratio, 0),
         t)

recordProgress(st, a, t) ==
  IF Rejected(a) THEN [threw |-> FALSE, storage |-> st]
  ELSE LET ratio == Quot(a.progressSec, a.durationSec[1]) IN
       upsertWatchItem(st,
         Rec(a.refType, a.refId, a.routeHash,
             Max(0, a.progressSec),
             Max(1 * TicksPerSec, a.durationSec[1]),
             ratio, 0),
         t)

\* readLastWatched().find(x => x.refType === refType && x.refId === refId) || null
RECURSIVE Find(_, _, _)
Find(items, refType, refId) ==
  IF items = <<>> THEN Returned(<<>>)
  ELSE LET x == Head(items) IN
       IF Throws(x) THEN Threw
       ELSE IF SameKey(x, refType, refId) THEN Returned(<<x>>)
       ELSE Find(Tail(items), refType, refId)

getResumeFor(st, refType, refId) ==
  LET read == readLastWatched(st) IN
  IF ~read.array THEN Threw ELSE Find(read.items, refType, refId)

\* x.ratio ?? 0
RatioOr0(x) == IF x.ratio = <<>> THEN <<0, 1>> ELSE x.ratio

RECURSIVE Filter92(_)
Filter92(items) ==
  IF items = <<>> THEN <<>>
  ELSE IF Below92(RatioOr0(Head(items)))
       THEN <<Head(items)>> \o Filter92(Tail(items))
       ELSE Filter92(Tail(items))

\* insertion in ascending order of updatedAt
RECURSIVE InsertDesc_Ascending(_, _)
InsertDesc_Ascending(sorted, x) ==
  IF sorted = <<>> THEN <<x>>
  ELSE IF Head(sorted).updatedAt <= x.updatedAt
       THEN <<Head(sorted)>> \o InsertDesc_Ascending(Tail(sorted), x)
       ELSE <<x>> \o sorted

\* stable insertion in descending order of updatedAt
RECURSIVE InsertDesc(_, _)
InsertDesc(sorted, x) ==
  IF sorted = <<>> THEN <<x>>
  ELSE IF Head(sorted).updatedAt >= x.updatedAt
       THEN <<Head(sorted)>> \o InsertDesc(Tail(sorted), x)
       ELSE <<x>> \o sorted

\* .sort((a, b) => (b.updatedAt || 0) - (a.updatedAt || 0)), a stable sort
RECURSIVE SortDesc(_)
SortDesc(items) ==
  IF items = <<>> THEN <<>>
  ELSE InsertDesc(SortDesc(SubSeq(items, 1, Len(items) - 1)), items[Len(items)])

\* .map(x => obj ? { meta: x, obj } : null).filter(Boolean)
RECURSIVE Join(_, _)
Join(items, index) ==
  IF items = <<>> THEN <<>>
  ELSE LET x == Head(items) IN
       IF x.refId \in DOMAIN index
       THEN <<[meta |-> x, obj |-> index[x.refId]]>> \o Join(Tail(items), index)
       ELSE Join(Tail(items), index)

continueWatchingItems(st, index) ==
  LET read == readLastWatched(st) IN
  IF ~read.array \/ \E i \in 1..Len(read.items) : Throws(read.items[i])
  THEN Threw
  ELSE Returned(Join(SortDesc(Filter92(read.items)), index))

\* the stored array holds a record object with this key
HasKey(st, refType, refId) ==
  st.kind = "array" /\ \E i \in 1..Len(st.items) :
    st.items[i].js = "object" /\ SameKey(st.items[i], refType, refId)

-----------------------------------------------------------------------------
(* Router *)

\* location.hash, already split: the path parts and the kind query parameter
Hash(parts, kind) == [parts |-> parts, kind |-> kind]

Part(h, i) == IF i <= Len(h.parts) THEN h.parts[i] ELSE undefined

\* query.kind || "content"
KindOf(h) == IF h.kind = <<>> \/ h.kind[1] = "" THEN "content" ELSE h.kind[1]

Route(name, id, seasonIndex, epIndex, kind) ==
  [name |-> name, id |-> id, seasonIndex |-> seasonIndex,
   epIndex |-> epIndex, kind |-> kind]

HomeRoute == Route("home", undefined, undefined, undefined, undefined)

parseHash(h) ==
  LET p0 == Part(h, 1) IN
  CASE p0 = "title" /\ ~Falsy(Part(h, 2)) ->
         Route("title", Part(h, 2), undefined, undefined, undefined)
    [] p0 = "series" /\ ~Falsy(Part(h, 2)) ->
         Route("series", Part(h, 2), undefined, undefined, undefined)
    [] p0 = "episode" /\ ~Falsy(Part(h, 2)) /\ ~Falsy(Part(h, 3))
         /\ ~Falsy(Part(h, 4)) ->
         Route("episode", Part(h, 2), Part(h, 3), Part(h, 4), KindOf(h))
    [] p0 = "watch" /\ ~Falsy(Part(h, 2)) ->
         Route("watch", Part(h, 2), undefined, undefined, KindOf(h))
    [] p0 \in {"loop", "search", "login", "profile"} ->
         Route(p0, undefined, undefined, undefined, undefined)
    [] OTHER -> HomeRoute

\* Number(s) for a route parameter: <<n>>, or <<>> for NaN
Number(s) ==
  CASE s = "0" -> <<0>>
    [] s = "1" -> <<1>>
    [] s = "2" -> <<2>>
    [] OTHER -> <<>>

muxIdFor(t, kind) ==
  IF kind = "trailer" THEN t.trailerPlaybackId ELSE t.contentPlaybackId

-----------------------------------------------------------------------------
(* Player *)

NoPlayer ==
  [mounted |-> FALSE, refType |-> undefined, refId |-> undefined,
   routeHash |-> undefined, trackKind |-> undefined, resumeSec |-> 0,
   seekOn |-> {}, tracking |-> FALSE, lastSaveAt |-> 0,
   currentTime |-> 0, duration |-> 0, seeked |-> FALSE]

\* mountPlayer that attaches the progress listeners whatever trackKind is
mountPlayer_TrackAll(refType, refId, routeHash, resumeSec, trackKind) ==
  [mounted |-> TRUE, refType |-> refType, refId |-> refId,
   routeHash |-> routeHash, trackKind |-> trackKind, resumeSec |-> resumeSec,
   seekOn |-> IF trackKind = "content" /\ resumeSec > 5 * TicksPerSec
              THEN {"loadedmetadata", "canplay"} ELSE {},
   tracking |-> TRUE,
   lastSaveAt |-> 0, currentTime |-> 0, duration |-> 0, seeked |-> FALSE]

\* mountPlayer(...) once playerWrap and the player element exist
mountPlayer(refType, refId, routeHash, resumeSec, trackKind) ==
  [mounted |-> TRUE, refType |-> refType, refId |-> refId,
   routeHash |-> routeHash, trackKind |-> trackKind, resumeSec |-> resumeSec,
   seekOn |-> IF trackKind = "content" /\ resumeSec > 5 * TicksPerSec
              THEN {"loadedmetadata", "canplay"} ELSE {},
   tracking |-> (trackKind = "content"),
   lastSaveAt |-> 0, currentTime |-> 0, duration |-> 0, seeked |-> FALSE]

\* the episode s?.seasons?.[Number(seasonIndex)]?.episodes?.[Number(epIndex)]
EpisodeAt(index, r) ==
  LET si == Number(r.seasonIndex)
      ei == Number(r.epIndex) IN
  IF r.id \notin DOMAIN index \/ si = <<>> \/ ei = <<>> THEN <<>>
  ELSE LET seasons == index[r.id].seasons.items IN
       IF si[1] + 1 > Len(seasons) THEN <<>>
       ELSE IF seasons[si[1] + 1].js = "null" THEN <<>>
       ELSE LET eps == seasons[si[1] + 1].episodes.items IN
            IF ei[1] + 1 > Len(eps) THEN <<>>
            ELSE IF eps[ei[1] + 1].js = "null" THEN <<>>
            ELSE <<eps[ei[1] + 1]>>

\* the entity a watch or episode route plays, <<>> if there is none
RouteEntity(index, r) ==
  CASE r.name = "watch" ->
         IF r.id \in DOMAIN index THEN <<index[r.id]>> ELSE <<>>
    [] r.name = "episode" -> EpisodeAt(index, r)
    [] OTHER -> <<>>

RouteHashFor(r, e) ==
  IF r.name = "watch"
  THEN "#/watch/" \o e.id \o "?kind=" \o r.kind
  ELSE "#/episode/" \o r.id \o "/" \o r.seasonIndex \o "/" \o r.epIndex
         \o "?kind=" \o r.kind

\* resume?.progressSec || 0
ResumeSecOf(res) == IF res.value = <<>> THEN 0 ELSE res.value[1].progressSec

\* render(): the player it leaves mounted, whether it looked a resume record
\* up, and whether it threw.  old is the player mounted before the call.
render(st, index, r, old) ==
  IF r.name = "home"
  THEN \* HomePage() calls continueWatchingItems() before the page is swapped
       IF continueWatchingItems(st, index).threw
       THEN [threw |-> TRUE, looked |-> FALSE, player |-> old]
       ELSE [threw |-> FALSE, looked |-> FALSE, player |-> NoPlayer]
  ELSE IF r.name \in {"watch", "episode"}
  THEN LET ent == RouteEntity(index, r) IN
       IF ent = <<>>
       THEN [threw |-> FALSE, looked |-> FALSE, player |-> NoPlayer]
       ELSE LET e == ent[1]
                pb == muxIdFor(e, r.kind)
                refType == IF r.name = "watch" THEN "title" ELSE "episode"
                looked == (r.kind = "content")
                resume == IF looked THEN getResumeFor(st, refType, e.id)
                          ELSE Returned(<<>>) IN
            IF resume.threw
            THEN [threw |-> TRUE, looked |-> looked, player |-> NoPlayer]
            ELSE IF Falsy(pb)
            THEN \* the page has no playerWrap: mountPlayer returns at once
                 [threw |-> FALSE, looked |-> looked, player |-> NoPlayer]
            ELSE [threw |-> FALSE, looked |-> looked,
                  player |-> mountPlayer(refType, e.id, RouteHashFor(r, e),
                                         ResumeSecOf(resume), r.kind)]
  ELSE [threw |-> FALSE, looked |-> FALSE, player |-> NoPlayer]

-----------------------------------------------------------------------------
(* The LIVE loop channel *)

\* freqMins * 60 * 1000
MsPerMin == 60000

\* loop?.adFrequencyMins || 12
DefaultAdFrequencyMins == 12

\* an entry of loopChannel.rotationItems
Ref(refType, refId) == [js |-> "object", refType |-> refType, refId |-> refId]

\* an entry of loopChannel.sponsoredAds
Ad(muxAdPlaybackId, mediaUrl) ==
  [js |-> "object", muxAdPlaybackId |-> muxAdPlaybackId, mediaUrl |-> mediaUrl]

\* catalog.loopChannel; adFrequencyMins is <<>> when the field is missing
LoopChannel(rotationItems, sponsoredAds, adFrequencyMins, shuffle) ==
  [rotationItems |-> rotationItems, sponsoredAds |-> sponsoredAds,
   adFrequencyMins |-> adFrequencyMins, shuffle |-> shuffle]

\* state.catalog?.loopChannel of the option cat, <<>> if there is none
LoopOf(cat) == IF cat = <<>> THEN <<>> ELSE cat[1].loopChannel

\* state.loop as the script creates it
InitLoop ==
  [queue |-> <<>>, index |-> 0, lastAdAt |-> 0, shuffle |-> TRUE,
   playingAd |-> FALSE]

\* v || ""
OrEmpty(v) == IF Falsy(v) THEN "" ELSE v

\* [a[i], a[j]] = [a[j], a[i]]
Swap(a, i, j) == [a EXCEPT ![i] = a[j], ![j] = a[i]]

\* the arrays the loop of shuffleArray can leave, from position i (1-based)
\* down, Math.random choosing any j at or below it
RECURSIVE ShuffleFrom(_, _)
ShuffleFrom(a, i) ==
  IF i <= 1 THEN {a}
  ELSE UNION { ShuffleFrom(Swap(a, i, j), i - 1) : j \in 1..i }

\* shuffleArray with a[i] = a[j] in place of the swap
RECURSIVE ShuffleFrom_Overwrite(_, _)
ShuffleFrom_Overwrite(a, i) ==
  IF i <= 1 THEN {a}
  ELSE UNION { ShuffleFrom_Overwrite([a EXCEPT ![i] = a[j]], i - 1) : j \in 1..i }

shuffleArray_Overwrite(arr) == ShuffleFrom_Overwrite(arr, Len(arr))

\* shuffleArray(arr): every array it can return
shuffleArray(arr) == ShuffleFrom(arr, Len(arr))

resolveLoopItem_KeepMissing(index, it) ==
  IF it.js = "null" THEN <<>>
  ELSE IF it.refType \in {"title", "episode"}
  THEN << [kind |-> "content", refType |-> it.refType, refId |-> it.refId,
           playbackId |-> IF it.refId \notin DOMAIN index THEN ""
                          ELSE IF ~Falsy(index[it.refId].contentPlaybackId)
                          THEN index[it.refId].contentPlaybackId
                          ELSE OrEmpty(index[it.refId].trailerPlaybackId)] >>
  ELSE <<>>

\* resolveLoopItem(it): <<>> for null, else the queue item
resolveLoopItem(index, it) ==
  IF it.js = "null" THEN <<>>
  ELSE IF it.refType \in {"title", "episode"}
  THEN IF it.refId \notin DOMAIN index THEN <<>>
       ELSE LET e == index[it.refId] IN
            << [kind |-> "content", refType |-> it.refType,
                refId |-> it.refId,
                playbackId |-> IF ~Falsy(e.contentPlaybackId)
                               THEN e.contentPlaybackId
                               ELSE IF ~Falsy(e.trailerPlaybackId)
                               THEN e.trailerPlaybackId
                               ELSE ""] >>
  ELSE <<>>

\* rotationItems.map(resolveLoopItem).filter(Boolean)
RECURSIVE ResolveAll(_, _)
ResolveAll(index, its) ==
  IF its = <<>> THEN <<>>
  ELSE resolveLoopItem(index, Head(its)) \o ResolveAll(index, Tail(its))

\* initLoopQueue() without the reset of lastAdAt
initLoopQueue_KeepLastAdAt(cat, index, lp) ==
  LET ch == LoopOf(cat) IN
  IF ch = <<>> THEN {[lp EXCEPT !.queue = <<>>]}
  ELSE IF ch[1].rotationItems.js # "array"
          \/ Len(ch[1].rotationItems.items) = 0
  THEN {[lp EXCEPT !.queue = <<>>]}
  ELSE LET items == ResolveAll(index, ch[1].rotationItems.items) IN
       { [queue |-> q, index |-> 0, lastAdAt |-> lp.lastAdAt,
          shuffle |-> ch[1].shuffle, playingAd |-> FALSE] :
           q \in IF ch[1].shuffle THEN shuffleArray(items) ELSE {items} }

\* initLoopQueue(): every state.loop it can leave, lp being state.loop before
initLoopQueue(cat, index, lp) ==
  LET ch == LoopOf(cat) IN
  IF ch = <<>> THEN {[lp EXCEPT !.queue = <<>>]}
  ELSE IF ch[1].rotationItems.js # "array"
          \/ Len(ch[1].rotationItems.items) = 0
  THEN {[lp EXCEPT !.queue = <<>>]}
  ELSE LET items == ResolveAll(index, ch[1].rotationItems.items) IN
       { [queue |-> q, index |-> 0, lastAdAt |-> 0,
          shuffle |-> ch[1].shuffle, playingAd |-> FALSE] :
           q \in IF ch[1].shuffle THEN shuffleArray(items) ELSE {items} }

\* pickLoopAd(): every value it can return, <<>> for null
pickLoopAd(cat) ==
  LET ch == LoopOf(cat)
      ads == IF ch = <<>> THEN <<>>
             ELSE IF ch[1].sponsoredAds.js = "array"
             THEN ch[1].sponsoredAds.items ELSE <<>> IN
  IF Len(ads) = 0 THEN {<<>>}
  ELSE { IF ads[i].js = "null" THEN <<>>
         ELSE << [kind |-> "ad", playbackId |-> OrEmpty(ads[i].muxAdPlaybackId),
                  mediaUrl |-> OrEmpty(ads[i].mediaUrl)] >> : i \in 1..Len(ads) }

\* Number(loop?.adFrequencyMins || 12)
FreqMins(cat) ==
  LET ch == LoopOf(cat) IN
  IF ch = <<>> THEN DefaultAdFrequencyMins
  ELSE IF ch[1].adFrequencyMins = <<>> \/ ch[1].adFrequencyMins = <<0>>
  THEN DefaultAdFrequencyMins
  ELSE ch[1].adFrequencyMins[1]

\* shouldPlayAd() at Date.now() = t
shouldPlayAd(cat, lp, t) ==
  IF FreqMins(cat) = 0 THEN FALSE
  ELSE t - lp.lastAdAt >= FreqMins(cat) * MsPerMin

nextLoopItem_NoWrap(lp) ==
  IF Len(lp.queue) = 0 THEN {lp}
  ELSE {[lp EXCEPT !.index = Min(lp.index + 1, Len(lp.queue) - 1)]}

\* nextLoopItem() that reshuffles at the wrap whatever the shuffle flag
nextLoopItem_AlwaysShuffle(lp) ==
  IF Len(lp.queue) = 0 THEN {lp}
  ELSE LET i == (lp.index + 1) % Len(lp.queue) IN
       IF i = 0
       THEN { [lp EXCEPT !.index = i, !.queue = q] : q \in shuffleArray(lp.queue) }
       ELSE { [lp EXCEPT !.index = i] }

\* nextLoopItem(): every state.loop it can leave
nextLoopItem(lp) ==
  IF Len(lp.queue) = 0 THEN {lp}
  ELSE LET i == (lp.index + 1) % Len(lp.queue) IN
       IF i = 0 /\ lp.shuffle
       THEN { [lp EXCEPT !.index = i, !.queue = q] : q \in shuffleArray(lp.queue) }
       ELSE { [lp EXCEPT !.index = i] }

\* currentLoopItem() reading the queue from position 1
currentLoopItem_OneBased(lp) ==
  IF 1 <= lp.index /\ lp.index <= Len(lp.queue)
  THEN <<lp.queue[lp.index]>> ELSE <<>>

\* currentLoopItem(): queue[index] || null
currentLoopItem(lp) ==
  IF lp.index + 1 <= Len(lp.queue) THEN <<lp.queue[lp.index + 1]>> ELSE <<>>

\* an ad playNextLoop accepts: ad && (ad.playbackId || ad.mediaUrl)
Playable(ad) == ad # <<>> /\ (~Falsy(ad[1].playbackId) \/ ~Falsy(ad[1].mediaUrl))

\* playNextLoop() at Date.now() = t: every outcome, as the state.loop it
\* leaves and the ad it hands to renderLoopAd (<<>> when it calls render)
playNextLoop(cat, lp, t) ==
  LET advance == { [loop |-> l, ad |-> <<>>] :
                     l \in nextLoopItem([lp EXCEPT !.playingAd = FALSE]) } IN
  IF ~lp.playingAd /\ shouldPlayAd(cat, lp, t)
  THEN UNION { IF Playable(ad)
               THEN { [loop |-> [lp EXCEPT !.playingAd = TRUE, !.lastAdAt = t],
                       ad |-> ad] }
               ELSE advance : ad \in pickLoopAd(cat) }
  ELSE advance

\* the page has no #loopPlayer element and no skip timer is set
NoLoopPlayer == [listening |-> FALSE, skipPending |-> FALSE]

\* LoopPage() renders the <mux-player id="loopPlayer"> element
HasLoopPlayer(cat, lp) ==
  /\ LoopOf(cat) # <<>>
  /\ Len(lp.queue) > 0
  /\ currentLoopItem(lp) # <<>>
  /\ ~Falsy(currentLoopItem(lp)[1].playbackId)

\* the Loop page is up and its current item has no playbackId
ShowsUnplayable(cat, lp, r) ==
  /\ r.name = "loop"
  /\ LoopOf(cat) # <<>>
  /\ Len(lp.queue) > 0
  /\ (currentLoopItem(lp) = <<>> \/ Falsy(currentLoopItem(lp)[1].playbackId))

\* attachLoopPlayerListeners() after render() drew the route r: whether the
\* element now listens to ended / error and whether a skip timer is set
\* (timers already set stay set)
attachLoopPlayerListeners(cat, lp, r, old) ==
  IF r.name # "loop" \/ ~HasLoopPlayer(cat, lp)
  THEN \* p is null: return
       [listening |-> FALSE, skipPending |-> old.skipPending]
  ELSE IF currentLoopItem(lp) = <<>> \/ Falsy(currentLoopItem(lp)[1].playbackId)
  THEN [listening |-> FALSE, skipPending |-> TRUE]
  ELSE [listening |-> TRUE, skipPending |-> old.skipPending]

\* a page swap that is not render(): the element goes, timers stay
Unmounted(old) == [listening |-> FALSE, skipPending |-> old.skipPending]

loopPlayerListener_ErrorStays(ev, cat, lp, t) ==
  IF ev = "error" THEN {[loop |-> lp, ad |-> <<>>]}
  ELSE playNextLoop(cat, lp, t)

\* the listener of the event ev ("ended" or "error") of #loopPlayer
loopPlayerListener(ev, cat, lp, t) == playNextLoop(cat, lp, t)

\* history of the rotation cycle
InitHist == [queue0 |-> <<>>, n |-> 0, ad |-> FALSE, breaks |-> 0]

\* initLoopQueue() left the queue q: a cycle starts
HistInit(q) == [queue0 |-> q, n |-> 0, ad |-> FALSE, breaks |-> 0]

\* playNextLoop() made the outcome o from state.loop = lp; breaks counts the
\* ad breaks entered since index was last written (2 stands for "2 or more")
HistNext(h, lp, o) ==
  IF o.ad # <<>> THEN [h EXCEPT !.ad = TRUE, !.breaks = Min(@ + 1, 2)]
  ELSE IF h.n >= Len(h.queue0)
  THEN [queue0 |-> lp.queue, n |-> 1, ad |-> FALSE, breaks |-> 0]
  ELSE [h EXCEPT !.n = @ + 1, !.breaks = 0]

-----------------------------------------------------------------------------
(* Featured *)

\* an object with further properties
With(o, extra) == extra @@ o

\* state.titles: what the last successful normalizeCatalog returned
TitlesOf(cat) ==
  IF cat = <<>> THEN <<>>
  ELSE LET n == normalizeCatalog(cat[1]) IN
       IF n.threw THEN <<>> ELSE n.titles

\* the references of an explicit list: an id string, {refId}, {id}
StrRef(id) == [js |-> "string", value |-> id]

RefIdRef(refId) == [js |-> "object", refId |-> refId]

IdRef(id) == [js |-> "object", id |-> id]

\* o.f of an object that may not carry f: the value is falsy
Lacks(o, f) == f \notin DOMAIN o \/ Falsy(o[f])

FeaturedFields ==
  <<"featuredTitles", "featured", "hero", "heroItems", "featuredItems">>

\* c.featuredTitles || c.featured || c.hero || c.heroItems ||
\* c.featuredItems || null, from field i on
RECURSIVE DirectFrom(_, _)
DirectFrom(c, i) ==
  IF i > Len(FeaturedFields) THEN Absent
  ELSE IF c[FeaturedFields[i]].js # "undefined" THEN c[FeaturedFields[i]]
  ELSE DirectFrom(c, i + 1)

Direct(cat) == IF cat = <<>> THEN Absent ELSE DirectFrom(cat[1], 1)

\* state.byId.get(k), <<>> when there is no such key
MapGet(index, k) == IF k \in DOMAIN index THEN <<index[k]>> ELSE <<>>

\* the callback of direct.map: <<>> is a falsy result
\* direct.map whose {id} branch has no "|| it"
ResolveFeatured_DropUnknownId(index, it) ==
  IF it.js = "null" THEN <<>>
  ELSE IF it.js = "string"
  THEN IF Falsy(it.value) THEN <<>> ELSE MapGet(index, it.value)
  ELSE IF ~Lacks(it, "refId") THEN MapGet(index, it.refId)
  ELSE IF ~Lacks(it, "id") THEN MapGet(index, it.id)
  ELSE <<it>>

ResolveFeatured(index, it) ==
  IF it.js = "null" THEN <<>>
  ELSE IF it.js = "string"
  THEN IF Falsy(it.value) THEN <<>> ELSE MapGet(index, it.value)
  ELSE IF ~Lacks(it, "refId") THEN MapGet(index, it.refId)
  ELSE IF ~Lacks(it, "id")
  THEN IF it.id \in DOMAIN index THEN <<index[it.id]>> ELSE <<it>>
  ELSE <<it>>

\* direct.map(...).filter(Boolean)
RECURSIVE ResolveEach(_, _)
ResolveEach(index, its) ==
  IF its = <<>> THEN <<>>
  ELSE ResolveFeatured(index, Head(its)) \o ResolveEach(index, Tail(its))

\* the strings of the inputs that /featured/i matches
FeaturedWords == {"featured", "Staff Featured", "FEATURED"}

\* Array.isArray(t[f]) && t[f].some(x => /featured/i.test(x))
SomeFeatured(t, f) ==
  /\ f \in DOMAIN t
  /\ t[f].js = "array"
  /\ \E i \in 1..Len(t[f].items) : t[f].items[i] \in FeaturedWords

\* t[f] === true
IsTrue(t, f) == f \in DOMAIN t /\ t[f] = TRUE

FlaggedFeatured(t) ==
  \/ IsTrue(t, "isFeatured")
  \/ IsTrue(t, "featured")
  \/ IsTrue(t, "appFeatured")
  \/ SomeFeatured(t, "tags")
  \/ SomeFeatured(t, "genre")

featuredItems(cat, index) ==
  LET direct == Direct(cat) IN
  IF direct.js = "array" /\ Len(direct.items) > 0
  THEN ResolveEach(index, direct.items)
  ELSE SelectSeq(TitlesOf(cat), FlaggedFeatured)

DefaultRank == 9999

\* a.featuredOrder ?? a.featuredRank ?? a.rank ?? 9999; a rank field holds
\* <<n>>, or <<>> for null
Nullish(a, f) == f \notin DOMAIN a \/ a[f] = <<>>

Rank(a) ==
  IF ~Nullish(a, "featuredOrder") THEN a.featuredOrder[1]
  ELSE IF ~Nullish(a, "featuredRank") THEN a.featuredRank[1]
  ELSE IF ~Nullish(a, "rank") THEN a.rank[1]
  ELSE DefaultRank

\* Array.prototype.sort with the comparator ao - bo: a stable sort, here by
\* insertion after the last element that does not compare greater
RECURSIVE InsertByRank_BeforeEqual(_, _)
InsertByRank_BeforeEqual(sorted, x) ==
  IF sorted = <<>> THEN <<x>>
  ELSE IF Rank(Head(sorted)) - Rank(x) >= 0 THEN <<x>> \o sorted
  ELSE <<Head(sorted)>> \o InsertByRank_BeforeEqual(Tail(sorted), x)

RECURSIVE InsertByRank(_, _)
InsertByRank(sorted, x) ==
  IF sorted = <<>> THEN <<x>>
  ELSE IF Rank(Head(sorted)) - Rank(x) > 0 THEN <<x>> \o sorted
  ELSE <<Head(sorted)>> \o InsertByRank(Tail(sorted), x)

RECURSIVE SortByRank(_, _)
SortByRank(acc, items) ==
  IF items = <<>> THEN acc
  ELSE SortByRank(InsertByRank(acc, Head(items)), Tail(items))

\* sortFeatured(items): the array returned, and items after the call
sortFeatured(items) ==
  [items |-> items, value |-> SortByRank(<<>>, items)]

-----------------------------------------------------------------------------
(* Catalog fetch *)

\* CONFIG as far as the fetch reads it; "" is the default, nothing configured
Config(manifestUrl, fallbackUrl) ==
  [MANIFEST_URL |-> manifestUrl, CATALOG_URL_FALLBACK |-> fallbackUrl]

\* a manifest document; a field it does not carry is undefined
Manifest(latestCatalogUrl, catalogUrl, stableCatalogUrl) ==
  [js |-> "object", latestCatalogUrl |-> latestCatalogUrl,
   catalogUrl |-> catalogUrl, stableCatalogUrl |-> stableCatalogUrl]

\* what the network answers for one URL: kind is "reject" (fetch() throws),
\* "status" (res.ok is false), "badjson" (res.json() throws) or "ok" (the
\* body holds the parsed document)
Response(kind, body) == [kind |-> kind, body |-> body]

\* a || b on strings
Or(a, b) == IF Falsy(a) THEN b ELSE a

\* fetch(url), the res.ok test and res.json(): every failure throws
FetchJson(env, url) ==
  IF env[url].kind = "ok" THEN Returned(env[url].body[1]) ELSE Threw

\* the URL the manifest step fetches the catalog from
CatalogUrlOf(cfg, manifest) ==
  Or(manifest.latestCatalogUrl,
     Or(manifest.catalogUrl,
        Or(manifest.stableCatalogUrl, cfg.CATALOG_URL_FALLBACK)))

\* the try block: manifest, then the catalog it names
ManifestStep(cfg, env) ==
  LET mRes == FetchJson(env, cfg.MANIFEST_URL) IN
  IF mRes.threw THEN Threw
  ELSE IF mRes.value.js # "object" THEN Threw
  ELSE FetchJson(env, CatalogUrlOf(cfg, mRes.value))

\* fetchCatalogFromManifest whose catch gives up without the fallback
fetchCatalogFromManifest_NoFallback(cfg, env) ==
  IF Falsy(cfg.MANIFEST_URL)
  THEN IF Falsy(cfg.CATALOG_URL_FALLBACK) THEN Threw
       ELSE FetchJson(env, cfg.CATALOG_URL_FALLBACK)
  ELSE ManifestStep(cfg, env)

fetchCatalogFromManifest(cfg, env) ==
  IF Falsy(cfg.MANIFEST_URL)
  THEN IF Falsy(cfg.CATALOG_URL_FALLBACK) THEN Threw
       ELSE FetchJson(env, cfg.CATALOG_URL_FALLBACK)
  ELSE LET step == ManifestStep(cfg, env) IN
       IF ~step.threw THEN step
       ELSE IF Falsy(cfg.CATALOG_URL_FALLBACK) THEN Threw
       ELSE FetchJson(env, cfg.CATALOG_URL_FALLBACK)

-----------------------------------------------------------------------------
(* Inputs *)

\* the URLs of a deployment; PageUrl is what "" + "?t=..." resolves to, the
\* page itself, which is no JSON document
ManifestUrl == "manifest.json"

CatalogUrl == "catalog.json"

FallbackUrl == "fallback.json"

PageUrl == ""

Failures == { Response(k, <<>>) : k \in {"reject", "status", "badjson"} }

ManifestResponses ==
  Failures \cup
  { Response("ok", <<m>>) :
      m \in { Manifest(undefined, undefined, undefined),
              Manifest(CatalogUrl, undefined, undefined),
              Manifest(undefined, CatalogUrl, undefined),
              Manifest("", undefined, CatalogUrl),
              Null } }

Configs ==
  { Config(m, f) : m \in {"", ManifestUrl}, f \in {"", FallbackUrl} }

\* the network: the manifest's catalog is DocA, the fallback's is DocB
Envs ==
  { [u \in {ManifestUrl, CatalogUrl, FallbackUrl, PageUrl} |->
       CASE u = ManifestUrl -> m
         [] u = CatalogUrl -> c
         [] u = FallbackUrl -> f
         [] OTHER -> n] :
      m \in ManifestResponses,
      c \in Failures \cup {Response("ok", <<DocA>>)},
      f \in Failures \cup {Response("ok", <<DocB>>)},
      n \in {Response("status", <<>>), Response("badjson", <<>>)} }

\* titles with featured flags and ranks: f1 and f3 tie on rank 2, f5 has
\* rank 0, f4 has none
FeaturedTitles ==
  Arr(<< With(Title("f1", "films", "pb_f1", "", Absent),
              [featuredOrder |-> <<2>>, isFeatured |-> TRUE]),
         With(Title("f2", "films", "pb_f2", "", Absent),
              [featuredRank |-> <<1>>, rank |-> <<5>>,
               tags |-> Arr(<<"new", "Staff Featured">>)]),
         With(Title("f3", "films", "pb_f3", "", Absent),
              [featuredOrder |-> <<>>, rank |-> <<2>>,
               isFeatured |-> FALSE, genre |-> Arr(<<"featured">>)]),
         With(Title("f4", "films", "pb_f4", "", Absent),
              [genre |-> Arr(<<"drama">>), tags |-> NotArr]),
         With(Title("f5", "films", "pb_f5", "", Absent),
              [featuredOrder |-> <<0>>, featuredRank |-> <<7>>,
               appFeatured |-> TRUE]) >>)

\* an inline item: neither id nor refId
Inline == [js |-> "object", name |-> "promo", rank |-> <<2>>]

\* references that resolve, references that do not, and a null entry
FeaturedRefs ==
  { StrRef("f1"), StrRef("zz"), StrRef(""), RefIdRef("f2"), RefIdRef("zz"),
    IdRef("f3"), IdRef("zz"), With(IdRef("f5"), [refId |-> ""]),
    With(IdRef("f4"), [rank |-> <<1>>]), Inline, Null }

FeaturedLists ==
  { <<a>> : a \in FeaturedRefs }
  \cup { <<a, b>> : a \in FeaturedRefs, b \in FeaturedRefs }
  \cup { <<StrRef("f1"), a, IdRef("f3")>> : a \in FeaturedRefs }

FeaturedDoc == Doc(FeaturedTitles, Absent, <<>>)

\* documents with one explicit list, and documents where an earlier field is
\* an empty array, is no array, or holds another list
FeaturedCatalogs ==
  { [FeaturedDoc EXCEPT !.featuredTitles = Arr(l)] : l \in FeaturedLists }
  \cup { [FeaturedDoc EXCEPT ![f] = Arr(<<IdRef("zz"), StrRef("f2")>>)] :
           f \in {"featured", "hero", "heroItems", "featuredItems"} }
  \cup { [FeaturedDoc EXCEPT ![f] = x, !.featuredItems = Arr(<<StrRef("f5")>>)] :
           f \in {"featuredTitles", "featured", "hero", "heroItems"},
           x \in {Arr(<<>>), NotArr, Arr(<<StrRef("f2"), StrRef("f1")>>)} }
  \cup { FeaturedDoc }

\* Date.now() when the page starts: any real clock is past the throttle and
\* past the default ad frequency
StartNow == (DefaultAdFrequencyMins + 1) * MsPerMin

ClockStep == MsPerMin

MaxNow == StartNow + MaxTicks * ClockStep

\* the recordProgress calls made on the store:
\* <<refType, refId, routeHash, progressSec, durationSec>>
AcceptedInputs ==
  { <<k[1], k[2], v[1], v[2], v[3]>> :
      k \in { <<"title", "t1">>, <<"episode", "t1">>, <<"title", "t9">> },
      v \in { <<"#/watch/a", -1, <<1>>>>, <<"#/watch/b", 23, <<25>>>> } }

RejectedInputs ==
  { <<"title", "", "#/watch/a", 1, <<25>>>>,
    <<"title", "t1", "#/watch/a", 1, <<>>>>,
    <<"title", "t1", "#/watch/a", 1, <<0>>>>,
    <<"title", "t1", "#/watch/a", 1, <<-1>>>> }

RecordInputs == AcceptedInputs \cup RejectedInputs

\* (refType, refId) of the lookups made on the store
KeyInputs ==
  { <<"title", "t1">>, <<"episode", "t1">>, <<"title", "t9">>,
    <<"episode", "t9">> }

Args(i) ==
  [refType |-> i[1], refId |-> i[2], routeHash |-> i[3],
   progressSec |-> i[4], durationSec |-> i[5]]

HashInputs ==
  { Hash(<<>>, <<>>),
    Hash(<<"watch", "t1">>, <<"content">>),
    Hash(<<"watch", "t1">>, <<"trailer">>),
    Hash(<<"watch", "t1">>, <<>>),
    Hash(<<"watch", "t1">>, <<"preview">>),
    Hash(<<"episode", "s1", "0", "0">>, <<"content">>),
    Hash(<<"episode", "s1", "0", "1">>, <<"trailer">>) }

\* the titles of the documents that carry a loop channel: t0 has no playback
\* id at all, the second episode of s1 has a trailer only
LoopTitles ==
  Arr(<< Title("t1", "films", "pb_t1", "tr_t1", Absent),
         Title("t0", "films", "", "", Absent),
         Title("s1", "series", "", "tr_s1",
               Arr(<< Season(Arr(<< Ep("", "pb_e1", ""),
                                    Ep("", "", "tr_e2") >>)) >>)) >>)

\* rotation references: resolvable ones, one to an entity without playback
\* id, one to a missing entity, one of an unknown refType and a null
Rotation3 ==
  Arr(<< Ref("title", "t1"), Ref("title", "gone"), Ref("episode", "s1_s1e2"),
         Ref("ad", "t1"), Null, Ref("title", "t0") >>)

Rotation1 == Arr(<< Ref("title", "t1") >>)

RotationGone == Arr(<< Ref("title", "gone"), Ref("episode", "t9") >>)

\* sponsored ads: one without a source followed by one with a playback id
AdsMixed == Arr(<< Ad(undefined, undefined), Ad("pb_ad", undefined) >>)

AdsUrl == Arr(<< Ad(undefined, "https://ads/a.mp4") >>)

\* the documents loadData receives in the loop specification
LoopCatalogs ==
  { Doc(LoopTitles, Absent, <<>>),
    Doc(LoopTitles, Absent, <<LoopChannel(Absent, AdsUrl, <<1>>, TRUE)>>),
    Doc(LoopTitles, Absent, <<LoopChannel(Arr(<<>>), AdsUrl, <<1>>, FALSE)>>),
    Doc(LoopTitles, Absent, <<LoopChannel(RotationGone, AdsUrl, <<-1>>, FALSE)>>),
    Doc(LoopTitles, Absent, <<LoopChannel(Rotation3, AdsMixed, <<1>>, TRUE)>>),
    Doc(LoopTitles, Absent, <<LoopChannel(Rotation3, AdsUrl, <<>>, FALSE)>>),
    Doc(LoopTitles, Absent, <<LoopChannel(Rotation1, AdsUrl, <<0>>, TRUE)>>),
    Doc(LoopTitles, Absent, <<LoopChannel(Rotation1, Absent, <<1>>, FALSE)>>),
    Doc(LoopTitles, Absent, <<LoopChannel(Rotation3, AdsUrl, <<-1>>, FALSE)>>) }

LoopHash == Hash(<<"loop">>, <<>>)

MediaDurations == {25}

CurrentTimes == {0, 3, 23}

\* the log after 30 titles were watched one millisecond apart
FullLog ==
  Stored("array",
    [i \in 1..LogCap |->
      Rec("title", "f" \o ToString(i), "#/watch/f" \o ToString(i),
          1, 25, <<1, 25>>, StartNow - i)])

Call(op, args) == [op |-> op, args |-> args]

\* the titles a fetched document is made of: well-formed ones, ones whose
\* ids collide, and malformed ones
TitleInputs ==
  { Title("t1", "films", "pb_t1", "tr_t1", Absent),
    Title("s1", "series", "", "tr_s1",
          Arr(<< Season(Arr(<< Ep("", "pb_e1", ""),
                               Ep("x1", "", "tr_x1") >>)) >>)),
    Title("s2", "series", "", "",
          Arr(<< Season(Absent), Season(Arr(<< Ep("", "pb_e2", "") >>)) >>)),
    Title("m1", "films", "pb_m1", "",
          Arr(<< Season(Arr(<< Ep("", "pb_e3", ""),
                               Ep("x3", "pb_x3", "") >>)) >>)),
    Title("s1_s1e1", "films", "pb_k1", "", Absent),
    Title("s3", "series", "", "", Absent),
    Title("s4", "series", "", "", NotArr),
    Title("s5", "series", "", "", Arr(<< Null >>)),
    Title("s6", "series", "", "", Arr(<< Season(NotArr) >>)),
    Title("s7", "series", "", "",
          Arr(<< Season(Arr(<< Ep("", "pb_e7", ""), Null >>)) >>)),
    Null }

\* the documents normalizeCatalog is run over
NormInputs ==
  { Doc(Arr(<<>>), Absent, <<>>), Doc(Absent, Absent, <<>>),
    Doc(NotArr, Absent, <<>>), Doc(Absent, NotArr, <<>>) }
  \cup { Doc(Arr(<<t>>), Absent, <<>>) : t \in TitleInputs }
  \cup { Doc(Arr(<<t, u>>), Absent, <<>>) : t \in TitleInputs, u \in TitleInputs }
  \cup { Doc(Absent, Arr(<<t>>), <<>>) : t \in TitleInputs }


-----------------------------------------------------------------------------
(* Initial states *)

InitRest ==
  /\ now = StartNow
  /\ catalog = <<>>
  /\ byId = EmptyMap
  /\ route = HomeRoute
  /\ player = NoPlayer
  /\ loop = InitLoop
  /\ view = "loading"
  /\ loopPlayer = NoLoopPlayer
  /\ pc = "boot"
  /\ hist = InitHist
  /\ call = Call("boot", <<>>)
  /\ ret = Returned(<<>>)

Init ==
  /\ storage = NoItem
  /\ InitRest

InitFull ==
  /\ storage = FullLog
  /\ InitRest

\* stored values that are not a serialized array of records
CorruptInputs ==
  { Stored("unparseable", <<>>), Stored("nonarray", <<>>),
    Stored("array", <<NonRec("null")>>) }

InitCorrupt ==
  /\ storage \in CorruptInputs
  /\ InitRest

\* loadData() has stored the fetched document and is about to normalize it
InitNorm ==
  /\ now = StartNow
  /\ storage = NoItem
  /\ catalog \in { <<d>> : d \in NormInputs }
  /\ byId = EmptyMap
  /\ route = HomeRoute
  /\ player = NoPlayer
  /\ loop = InitLoop
  /\ view = "loading"
  /\ loopPlayer = NoLoopPlayer
  /\ pc = "boot"
  /\ hist = InitHist
  /\ call = Call("fetchCatalogFromManifest", <<0>>)
  /\ ret = Returned(<<>>)


-----------------------------------------------------------------------------
(* Actions *)

Tick ==
  /\ now + ClockStep <= MaxNow
  /\ now' = now + ClockStep
  /\ UNCHANGED <<storage, catalog, byId, route, player, loop, view,
               loopPlayer, pc, hist, call, ret>>

\* boot() from loadData() on, f being what fetchCatalogFromManifest() gave:
\* renderLoading(), then either the catalog is replaced, initLoopQueue() and
\* render() run, or renderError() shows the error; then the render() that
\* boot() makes when loadData() has settled.  c is the call recorded.
LoadDataWith(f, c) ==
  LET norm == IF f.threw THEN normalizeCatalog(Doc(Absent, Absent, <<>>))
              ELSE normalizeCatalog(f.value) IN
  /\ pc = "boot"
  /\ pc' = "done"
  /\ call' = c
  /\ IF f.threw \/ norm.threw
     THEN \* caught: renderError(err); then boot() renders the route
          LET r2 == render(storage, byId, route, NoPlayer) IN
          /\ catalog' = IF f.threw THEN catalog ELSE <<norm.doc>>
          /\ player' = r2.player
          /\ view' = IF r2.threw THEN "error" ELSE "page"
          /\ loopPlayer' = IF r2.threw THEN Unmounted(loopPlayer)
                           ELSE attachLoopPlayerListeners(catalog', loop, route,
                                                          loopPlayer)
          /\ ret' = [threw |-> FALSE, looked |-> r2.looked, error |-> TRUE,
                     fetched |-> ~f.threw]
          /\ UNCHANGED <<now, storage, byId, route, loop, hist>>
     ELSE \E l \in initLoopQueue(<<norm.doc>>, norm.byId, loop) :
            LET r == render(storage, norm.byId, route, NoPlayer)
                r2 == render(storage, norm.byId, route, r.player) IN
            /\ catalog' = <<norm.doc>>
            /\ byId' = norm.byId
            /\ loop' = l
            /\ hist' = HistInit(l.queue)
            /\ player' = r2.player
            /\ view' = IF r2.threw THEN "error" ELSE "page"
            /\ loopPlayer' = IF r2.threw THEN Unmounted(loopPlayer)
                             ELSE attachLoopPlayerListeners(catalog', l, route,
                                                            loopPlayer)
            /\ ret' = [threw |-> FALSE, looked |-> r.looked,
                       error |-> r.threw, fetched |-> TRUE]
            /\ UNCHANGED <<now, storage, route>>

\* boot() when the fetch returned a document of S
LoadDataFrom(S) ==
  \E doc \in S : LoadDataWith(Returned(doc), Call("loadData", <<>>))

\* boot() under a configuration and a network
Boot ==
  \E cfg \in Configs, env \in Envs :
    LoadDataWith(fetchCatalogFromManifest(cfg, env),
                 Call("loadData", <<cfg, env>>))

\* boot() when the fetch returned any document, well-formed or not
LoadAnyData == LoadDataFrom(NormInputs)

LoadData == LoadDataFrom(Catalogs)

LoadFeaturedData == LoadDataFrom(FeaturedCatalogs)

\* HomePage() whose featuredItems() adds the inline items it keeps to the index
HomeFeatured_IndexInline ==
  LET items == featuredItems(catalog, byId)
      sorted == sortFeatured(items) IN
  /\ call' = Call("featuredItems", <<>>)
  /\ ret' = [threw |-> FALSE, featured |-> items, items |-> sorted.items,
             sorted |-> sorted.value]
  /\ byId' = [k \in DOMAIN byId \cup
                    { items[i].id : i \in { j \in 1..Len(items) :
                                              ~Lacks(items[j], "id") } } |->
                IF k \in DOMAIN byId THEN byId[k]
                ELSE items[CHOOSE i \in 1..Len(items) :
                             ~Lacks(items[i], "id") /\ items[i].id = k]]
  /\ UNCHANGED <<now, storage, catalog, route, player, loop, view,
                 loopPlayer, pc, hist>>

\* HomePage(): sortFeatured(featuredItems())
HomeFeatured ==
  LET items == featuredItems(catalog, byId)
      sorted == sortFeatured(items) IN
  /\ call' = Call("featuredItems", <<>>)
  /\ ret' = [threw |-> FALSE, featured |-> items, items |-> sorted.items,
             sorted |-> sorted.value]
  /\ UNCHANGED <<now, storage, catalog, byId, route, player, loop, view,
                 loopPlayer, pc, hist>>

\* normalizeCatalog(state.catalog), run once more over the same document;
\* state.titles and state.byId are assigned when it returns
NormalizeCatalog ==
  LET norm == normalizeCatalog(catalog[1]) IN
  /\ catalog # <<>>
  /\ call.args[1] < MaxRuns
  /\ catalog' = <<norm.doc>>
  /\ byId' = IF norm.threw THEN byId ELSE norm.byId
  /\ call' = Call("normalizeCatalog", <<call.args[1] + 1>>)
  /\ ret' = [threw |-> norm.threw, titles |-> norm.titles, refs |-> norm.refs]
  /\ UNCHANGED <<now, storage, route, player, loop, view,
               loopPlayer, pc, hist>>

\* recordProgress that also sends the rotation back to its first item
RecordProgressIn_RewindsLoop(S) ==
  \E i \in S :
    LET r == recordProgress(storage, Args(i), now) IN
    /\ storage' = r.storage
    /\ loop' = [loop EXCEPT !.index = 0]
    /\ call' = Call("recordProgress", Args(i))
    /\ ret' = [threw |-> r.threw, value |-> <<>>,
               replaced |-> HasKey(storage, Args(i).refType, Args(i).refId)]
    /\ UNCHANGED <<now, catalog, byId, route, player, view,
               loopPlayer, pc, hist>>

RecordProgressIn(S) ==
  \E i \in S :
    LET r == recordProgress(storage, Args(i), now) IN
    /\ storage' = r.storage
    /\ call' = Call("recordProgress", Args(i))
    /\ ret' = [threw |-> r.threw, value |-> <<>>,
               replaced |-> HasKey(storage, Args(i).refType, Args(i).refId)]
    /\ UNCHANGED <<now, catalog, byId, route, player, loop, view,
               loopPlayer, pc, hist>>

RecordProgress == RecordProgressIn(RecordInputs)

GetResumeForIn(S) ==
  \E k \in S :
    /\ call' = Call("getResumeFor", [refType |-> k[1], refId |-> k[2]])
    /\ ret' = getResumeFor(storage, k[1], k[2])
    /\ UNCHANGED <<now, storage, catalog, byId, route, player, loop, view,
               loopPlayer, pc, hist>>

GetResumeFor == GetResumeForIn(KeyInputs)

\* continueWatchingItems that writes the records it returned back to the log
ContinueWatchingItems_Prune ==
  LET r == continueWatchingItems(storage, byId) IN
  /\ call' = Call("continueWatchingItems", <<>>)
  /\ ret' = r
  /\ storage' = IF r.threw THEN storage
                ELSE saveLastWatched([i \in 1..Len(r.value) |-> r.value[i].meta])
  /\ UNCHANGED <<now, catalog, byId, route, player, loop, view,
                 loopPlayer, pc, hist>>

ContinueWatchingItems ==
  /\ call' = Call("continueWatchingItems", <<>>)
  /\ ret' = continueWatchingItems(storage, byId)
  /\ UNCHANGED <<now, storage, catalog, byId, route, player, loop, view,
               loopPlayer, pc, hist>>

\* location.hash = h, or any other caller of render()
NavigateIn(S) ==
  \E h \in S :
    LET r == render(storage, byId, parseHash(h), player) IN
    /\ route' = parseHash(h)
    /\ player' = r.player
    /\ view' = IF r.threw THEN view ELSE "page"
    /\ loopPlayer' = IF r.threw THEN loopPlayer
                     ELSE attachLoopPlayerListeners(catalog, loop, parseHash(h),
                                                    loopPlayer)
    /\ call' = Call("render", h)
    /\ ret' = [threw |-> r.threw, looked |-> r.looked]
    /\ UNCHANGED <<now, storage, catalog, byId, loop, pc, hist>>

Navigate == NavigateIn(HashInputs)

\* trySeek, a once-listener of the event ev
trySeek(p, ev) ==
  IF ev \in p.seekOn
  THEN [p EXCEPT !.currentTime = p.resumeSec, !.seekOn = @ \ {ev},
                 !.seeked = TRUE]
  ELSE p

LoadedMetadata ==
  \E d \in MediaDurations :
    /\ player.mounted
    /\ player.duration = 0
    /\ player' = trySeek([player EXCEPT !.duration = d], "loadedmetadata")
    /\ call' = Call("loadedmetadata", <<>>)
    /\ ret' = Returned(<<>>)
    /\ UNCHANGED <<now, storage, catalog, byId, route, loop, view,
               loopPlayer, pc, hist>>

CanPlay ==
  /\ player.mounted
  /\ player.duration > 0
  /\ player' = trySeek(player, "canplay")
  /\ call' = Call("canplay", <<>>)
  /\ ret' = Returned(<<>>)
  /\ UNCHANGED <<now, storage, catalog, byId, route, loop, view,
               loopPlayer, pc, hist>>

\* playback or a user seek moves the playhead
Playhead ==
  \E t \in CurrentTimes :
    /\ player.mounted
    /\ player.duration > 0
    /\ t <= player.duration
    /\ player' = [player EXCEPT !.currentTime = t]
    /\ call' = Call("playing", <<>>)
    /\ ret' = Returned(<<>>)
    /\ UNCHANGED <<now, storage, catalog, byId, route, loop, view,
               loopPlayer, pc, hist>>

PlayerArgs(p, progressSec, durationSec) ==
  [refType |-> p.refType, refId |-> p.refId, routeHash |-> p.routeHash,
   progressSec |-> progressSec, durationSec |-> <<durationSec>>]

\* onTime, the listener of timeupdate and pause
onTime(ev) ==
  /\ player.mounted
  /\ call' = Call(ev, <<>>)
  /\ IF player.tracking /\ player.duration > 0
        /\ now - player.lastSaveAt > ThrottleMs
     THEN LET r == recordProgress(storage,
                     PlayerArgs(player, player.currentTime, player.duration),
                     now) IN
          /\ storage' = r.storage
          /\ ret' = [threw |-> r.threw, value |-> <<>>]
          /\ player' = IF r.threw THEN player
                       ELSE [player EXCEPT !.lastSaveAt = now]
     ELSE /\ ret' = Returned(<<>>)
          /\ UNCHANGED <<storage, player>>
  /\ UNCHANGED <<now, catalog, byId, route, loop, view,
               loopPlayer, pc, hist>>

TimeUpdate == onTime("timeupdate")

Pause == onTime("pause")

\* onEnded
Ended ==
  /\ player.mounted
  /\ call' = Call("ended", <<>>)
  /\ IF player.tracking
     THEN LET r == recordProgress(storage,
                     PlayerArgs(player, player.duration, player.duration),
                     now) IN
          /\ storage' = r.storage
          /\ ret' = [threw |-> r.threw, value |-> <<>>]
     ELSE /\ ret' = Returned(<<>>)
          /\ UNCHANGED storage
  /\ UNCHANGED <<now, catalog, byId, route, player, loop, view,
               loopPlayer, pc, hist>>

\* loadData() in the loop specification
LoadLoopData == LoadDataFrom(LoopCatalogs)

\* location.hash = "#/loop"
OpenLoop == NavigateIn({LoopHash})

\* a handler that runs playNextLoop(), o being one of its outcomes
LoopStep(op, outcomes) ==
  \E o \in outcomes :
    /\ loop' = o.loop
    /\ hist' = HistNext(hist, loop, o)
    /\ call' = Call(op, <<>>)
    /\ IF o.ad # <<>>
       THEN \* renderLoopAd(ad) replaces the page
            /\ player' = NoPlayer
            /\ view' = "ad"
            /\ loopPlayer' = Unmounted(loopPlayer)
            /\ ret' = [threw |-> FALSE, ad |-> o.ad]
       ELSE LET r == render(storage, byId, route, player) IN
            /\ player' = r.player
            /\ view' = IF r.threw THEN view ELSE "page"
            /\ loopPlayer' = IF r.threw THEN loopPlayer
                             ELSE attachLoopPlayerListeners(catalog, o.loop,
                                                            route, loopPlayer)
            /\ ret' = [threw |-> r.threw, ad |-> <<>>]
    /\ UNCHANGED <<now, storage, catalog, byId, route, pc>>

\* window.skipLoop()
PlayNextLoop == LoopStep("playNextLoop", playNextLoop(catalog, loop, now))

\* ended of #loopPlayer
LoopEnded ==
  /\ view = "page" /\ loopPlayer.listening
  /\ LoopStep("loopEnded", loopPlayerListener("ended", catalog, loop, now))

\* error of #loopPlayer
LoopError ==
  /\ view = "page" /\ loopPlayer.listening
  /\ LoopStep("loopError", loopPlayerListener("error", catalog, loop, now))

\* ended / error of the ad player that renderLoopAd mounted
AdEnded ==
  /\ view = "ad"
  /\ LET r == render(storage, byId, route, player)
         l == [loop EXCEPT !.playingAd = FALSE] IN
     /\ loop' = l
     /\ player' = r.player
     /\ view' = IF r.threw THEN view ELSE "page"
     /\ loopPlayer' = IF r.threw THEN loopPlayer
                      ELSE attachLoopPlayerListeners(catalog, l, route,
                                                     loopPlayer)
     /\ call' = Call("adEnded", <<>>)
     /\ ret' = [threw |-> r.threw, ad |-> <<>>]
  /\ UNCHANGED <<now, storage, catalog, byId, route, pc, hist>>

\* a click on "Skip Ad": the inline handler onclick="playNextLoop()" runs in
\* the global scope, where the function is not defined: a ReferenceError
SkipAd ==
  /\ view = "ad"
  /\ call' = Call("skipAd", <<>>)
  /\ ret' = [threw |-> TRUE, ad |-> <<>>]
  /\ UNCHANGED <<now, storage, catalog, byId, route, player, loop, view,
                 loopPlayer, pc, hist>>

\* window.toggleLoopShuffle()
ToggleLoopShuffle ==
  \E l \in initLoopQueue(catalog, byId, [loop EXCEPT !.shuffle = ~@]) :
    LET r == render(storage, byId, route, player) IN
    /\ loop' = l
    /\ hist' = HistInit(l.queue)
    /\ player' = r.player
    /\ view' = IF r.threw THEN view ELSE "page"
    /\ loopPlayer' = IF r.threw THEN loopPlayer
                     ELSE attachLoopPlayerListeners(catalog, l, route,
                                                    loopPlayer)
    /\ call' = Call("toggleLoopShuffle", <<>>)
    /\ ret' = [threw |-> r.threw, ad |-> <<>>]
    /\ UNCHANGED <<now, storage, catalog, byId, route, pc>>

Next ==
  \/ Tick
  \/ LoadData
  \/ RecordProgress
  \/ GetResumeFor
  \/ ContinueWatchingItems

Spec == Init /\ [][Next]_vars

NextPlayer ==
  \/ Tick
  \/ LoadData
  \/ Navigate
  \/ LoadedMetadata
  \/ CanPlay
  \/ Playhead
  \/ TimeUpdate
  \/ Pause
  \/ Ended

SpecCorrupt == InitCorrupt /\ [][Next]_vars

NextFull ==
  \/ Tick
  \/ RecordProgress

SpecFull == InitFull /\ [][NextFull]_vars

SpecPlayer == Init /\ [][NextPlayer]_vars

NextNorm == NormalizeCatalog

NextLoop ==
  \/ Tick
  \/ LoadLoopData
  \/ OpenLoop
  \/ PlayNextLoop
  \/ LoopEnded
  \/ LoopError
  \/ AdEnded
  \/ SkipAd
  \/ ToggleLoopShuffle

SpecLoop == Init /\ [][NextLoop]_vars

NextBoot ==
  \/ Tick
  \/ Boot
  \/ Navigate

SpecBoot == Init /\ [][NextBoot]_vars

NextFeatured ==
  \/ LoadFeaturedData
  \/ HomeFeatured

SpecFeatured == Init /\ [][NextFeatured]_vars

\* the operations together, on few inputs each
LoadAppData ==
  LoadDataFrom(LoopCatalogs \cup
               {[FeaturedDoc EXCEPT !.hero = Arr(<<IdRef("zz"), StrRef("f2")>>)]})

NextApp ==
  \/ Tick
  \/ Boot
  \/ LoadAppData
  \/ RecordProgressIn({<<"title", "t1", "#/watch/b", 23, <<25>>>>,
                       <<"title", "", "#/watch/a", 1, <<25>>>>})
  \/ GetResumeForIn({<<"title", "t1">>})
  \/ ContinueWatchingItems
  \/ HomeFeatured
  \/ OpenLoop
  \/ PlayNextLoop
  \/ LoopEnded
  \/ LoopError
  \/ AdEnded
  \/ ToggleLoopShuffle

SpecApp == Init /\ [][NextApp]_vars

NextLoad ==
  \/ Tick
  \/ LoadAnyData
  \/ ContinueWatchingItems
  \/ HomeFeatured

SpecLoad == Init /\ [][NextLoad]_vars

SpecNorm == InitNorm /\ [][NextNorm]_vars

-----------------------------------------------------------------------------
(* Properties of the progress store *)

\* the log as the program reads it
Log == readLastWatched(storage).items

\* the last step was a recordProgress call that passed the documented guard
\* (refId present, durationSec present and > 0)
Accepted(c) ==
  /\ c.op = "recordProgress"
  /\ c.args.refId \notin {"", undefined}
  /\ c.args.durationSec # <<>>
  /\ c.args.durationSec[1] > 0

Refused(c) ==
  /\ c.op = "recordProgress"
  /\ \/ c.args.refId \in {"", undefined}
     \/ c.args.durationSec = <<>>
     \/ c.args.durationSec[1] <= 0

KeyCount(items, refType, refId) ==
  Cardinality({i \in 1..Len(items) :
                 items[i].refType = refType /\ items[i].refId = refId})

\* C1: after any sequence of recordProgress calls from an empty log, the log
\* holds at most one record for each (refType, refId) pair.
C1_OneRecordPerKey ==
  \A i, j \in 1..Len(Log) :
    (Log[i].refType = Log[j].refType /\ Log[i].refId = Log[j].refId) => i = j

\* a key recorded again while two other keys are in the log
C1_Witness ==
  /\ Accepted(call)
  /\ ret.replaced
  /\ Len(Log) = 3

\* C2 as stated: after an accepted recordProgress call the log holds exactly
\* one record of that key, at position 0, whose routeHash, progressSec,
\* durationSec and ratio are the values of that call.
C2_LastCallValues ==
  Accepted(call) =>
    /\ KeyCount(Log, call.args.refType, call.args.refId) = 1
    /\ Log[1].refType = call.args.refType
    /\ Log[1].refId = call.args.refId
    /\ Log[1].routeHash = call.args.routeHash
    /\ Log[1].progressSec = call.args.progressSec
    /\ Log[1].durationSec = call.args.durationSec[1]
    /\ Log[1].ratio[1] * call.args.durationSec[1]
         = call.args.progressSec * Log[1].ratio[2]

\* C2 as amended: the record at position 0 is the only one of its key; its
\* routeHash is that of the last call, its progressSec is the last call's
\* progressSec raised to at least 0, its durationSec the last call's
\* durationSec raised to at least 1 second, and its ratio the quotient of the
\* last call's progressSec and durationSec as passed.
C2_LastCallClamped ==
  Accepted(call) =>
    /\ KeyCount(Log, call.args.refType, call.args.refId) = 1
    /\ Log[1].refType = call.args.refType
    /\ Log[1].refId = call.args.refId
    /\ Log[1].routeHash = call.args.routeHash
    /\ Log[1].progressSec
         = (IF call.args.progressSec < 0 THEN 0 ELSE call.args.progressSec)
    /\ Log[1].durationSec
         = (IF call.args.durationSec[1] < TicksPerSec THEN TicksPerSec
            ELSE call.args.durationSec[1])
    /\ Log[1].ratio[1] * call.args.durationSec[1]
         = call.args.progressSec * Log[1].ratio[2]

\* a second call on a key, with other values than the record it replaces could
\* have had, and another key below it
C2_Witness ==
  /\ Accepted(call)
  /\ ret.replaced
  /\ call.args.progressSec < 0
  /\ Len(Log) >= 2
  /\ Log[1].progressSec = 0

\* C3: after every recordProgress call the log has at most 30 records; when
\* the upsert would make it longer, the records kept are the 30 most recently
\* updated ones, the new record among them.
C3_KeepsNewest30 ==
  [][(Accepted(call') /\ now' = now) =>
       LET a == call'.args
           old == Log
           new == Log' IN
       /\ Len(new) <= LogCap
       /\ Len(new) >= 1
       /\ new[1].refType = a.refType /\ new[1].refId = a.refId
       /\ new[1].updatedAt = now
       /\ \A i \in 2..Len(new) :
            /\ \E j \in 1..Len(old) : old[j] = new[i]
            /\ ~(new[i].refType = a.refType /\ new[i].refId = a.refId)
       /\ \A j \in 1..Len(old) :
            ( /\ ~(old[j].refType = a.refType /\ old[j].refId = a.refId)
              /\ \A i \in 1..Len(new) : new[i] # old[j] )
            => /\ Len(new) = LogCap
               /\ \A i \in 1..Len(new) : new[i].updatedAt >= old[j].updatedAt
    ]_vars

\* a new key was recorded on a full log and the oldest record is gone
C3_Witness ==
  /\ Accepted(call)
  /\ ~ret.replaced
  /\ Len(Log) = LogCap
  /\ ~HasKey(storage, "title", "f" \o ToString(LogCap))
  /\ HasKey(storage, "title", "f" \o ToString(LogCap - 1))

\* C4: with a non-decreasing clock, in every state reached by recordProgress
\* calls from an empty log, updatedAt is non-increasing from position 0 on.
C4_MostRecentFirst ==
  \A i, j \in 1..Len(Log) : i < j => Log[i].updatedAt >= Log[j].updatedAt

\* three records written at two different times
C4_Witness ==
  /\ Len(Log) = 3
  /\ Log[1].updatedAt > Log[3].updatedAt

\* C5: every stored record has progressSec >= 0, durationSec > 0 and a ratio
\* equal to its own progressSec divided by its own durationSec.
C5_RecordInvariant ==
  \A i \in 1..Len(Log) :
    /\ Log[i].progressSec >= 0
    /\ Log[i].durationSec > 0
    /\ Log[i].ratio # <<>>
    /\ Log[i].ratio[1] * Log[i].durationSec
         = Log[i].progressSec * Log[i].ratio[2]

\* C6: recordProgress with an absent or empty refId, or with durationSec
\* absent or <= 0, leaves the stored log as it was and completes.
C6_RefusedIsNoOp ==
  [][(Refused(call') /\ now' = now) =>
       (storage' = storage /\ ~ret'.threw)]_vars

\* a call without durationSec was refused on a log of two records
C6_Witness ==
  /\ Refused(call)
  /\ call.args.durationSec = <<>>
  /\ Len(Log) = 2

\* C7: continueWatchingItems returns no record with ratio >= 0.92 and no
\* record whose refId is not a key of the current entity index.
C7_ContinueWatchingFilter ==
  (call.op = "continueWatchingItems" /\ ~ret.threw) =>
    \A i \in 1..Len(ret.value) :
      LET m == ret.value[i].meta IN
      /\ m.ratio # <<>> => m.ratio[1] * 100 < 92 * m.ratio[2]
      /\ m.refId \in DOMAIN byId
      /\ ret.value[i].obj = byId[m.refId]

\* continueWatchingItems returned something while the log also held a record
\* at exactly 0.92 of an indexed title and a resumable record of a title that
\* is not in the index
C7_Witness ==
  /\ call.op = "continueWatchingItems"
  /\ Len(ret.value) >= 1
  /\ \E i \in 1..Len(Log) :
       /\ Log[i].ratio = <<23, 25>>
       /\ Log[i].refId \in DOMAIN byId
  /\ \E i \in 1..Len(Log) :
       /\ Log[i].ratio[1] < 0
       /\ Log[i].refId \notin DOMAIN byId

\* the stored value is not a serialized array of record objects
Corrupt(st) ==
  \/ st.kind \in {"unparseable", "nonarray"}
  \/ st.kind = "array" /\ \E i \in 1..Len(st.items) : st.items[i].js # "object"

\* C8: on a corrupt stored value no operation raises; getResumeFor returns
\* absent, continueWatchingItems returns the empty sequence, and an accepted
\* recordProgress leaves a log holding exactly the new record.
C8_CorruptIsEmpty ==
  [][(Corrupt(storage) /\ now' = now) =>
       /\ call'.op = "getResumeFor" => ret' = Returned(<<>>)
       /\ call'.op = "continueWatchingItems" => ret' = Returned(<<>>)
       /\ Accepted(call') =>
            /\ ~ret'.threw
            /\ Len(Log') = 1
            /\ Log'[1].refType = call'.args.refType
            /\ Log'[1].refId = call'.args.refId
    ]_vars

\* C9: getResumeFor returns the record whose refType and refId both match
\* when the log has one, null otherwise, and leaves the log as it was.
C9_ResumeLookup ==
  [][(call'.op = "getResumeFor" /\ now' = now) =>
       LET a == call'.args
           hits == {i \in 1..Len(Log) :
                      Log[i].refType = a.refType /\ Log[i].refId = a.refId} IN
       /\ storage' = storage
       /\ ~ret'.threw
       /\ hits = {} => ret'.value = <<>>
       /\ hits # {} => \E i \in hits : ret'.value = <<Log[i]>>
    ]_vars

\* the episode record of an id was returned while the log also holds a title
\* record of the same id
C9_Witness ==
  /\ call.op = "getResumeFor"
  /\ call.args = [refType |-> "episode", refId |-> "t1"]
  /\ ret.value # <<>>
  /\ ret.value[1].refType = "episode"
  /\ HasKey(storage, "title", "t1")

\* a lookup that found nothing although the log has a record with that refId
C9_WitnessAbsent ==
  /\ call.op = "getResumeFor"
  /\ call.args = [refType |-> "episode", refId |-> "t1"]
  /\ ret.value = <<>>
  /\ HasKey(storage, "title", "t1")

-----------------------------------------------------------------------------
(* Properties of the player *)

TrackEvents == {"timeupdate", "pause", "ended"}

\* C10: player events on a playback whose kind is not content leave the log
\* unchanged; such a playback has no resume offset and is never seeked; render
\* looks a resume record up only for kind = content, and the log is written
\* only while a content playback is mounted.
C10_TrailersNeverTrack ==
  [][/\ (call'.op \in TrackEvents /\ player.trackKind # "content")
          => storage' = storage
     /\ storage' # storage
          => (player.mounted /\ player.trackKind = "content")
     /\ (call'.op \in {"render", "loadData"} /\ ret'.looked)
          => route'.kind = "content"
     /\ (player'.mounted /\ player'.trackKind # "content")
          => /\ player'.resumeSec = 0
             /\ player'.seekOn = {}
             /\ ~player'.seeked
    ]_vars

\* the trailer of a title ended while the log holds a record of that title
\* far enough in to be resumed
C10_Witness ==
  /\ player.mounted
  /\ player.trackKind = "trailer"
  /\ player.refId = "t1"
  /\ player.duration > 0
  /\ call.op = "ended"
  /\ \E i \in 1..Len(Log) :
       /\ Log[i].refType = "title" /\ Log[i].refId = "t1"
       /\ Log[i].progressSec > 5 * TicksPerSec

-----------------------------------------------------------------------------
(* Properties of normalizeCatalog *)

\* the array normalizeCatalog walks in a document
Walked(doc) ==
  IF TitlesField(doc) = "none" THEN <<>> ELSE doc[TitlesField(doc)].items

\* the step is a call of normalizeCatalog that returned
Normalized == call' # call /\ call'.op = "normalizeCatalog" /\ ~ret'.threw

\* place p is visited before place q by the walk
Before(p, q) ==
  \/ p[1] < q[1]
  \/ /\ p[1] = q[1]
     /\ \/ Len(p) = 1 /\ Len(q) = 3
        \/ /\ Len(p) = 3 /\ Len(q) = 3
           /\ (p[2] < q[2] \/ (p[2] = q[2] /\ p[3] < q[3]))

\* the places of the episodes of the series titles of an array of titles
EpisodePlaces(titles) ==
  { p \in (1..Len(titles)) \X (1..2) \X (1..2) :
      /\ titles[p[1]].type = "series"
      /\ p[2] <= Len(titles[p[1]].seasons.items)
      /\ p[3] <= Len(titles[p[1]].seasons.items[p[2]].episodes.items) }

\* C11: a call of normalizeCatalog that returns gives every episode of a
\* series title that had no id the id {titleId}_s{seasonIndex+1}e{episodeIndex+1},
\* keeps an id the episode had, sets __seriesId, __seasonIndex and __epIndex
\* (0-based) and stores the episode in the index under its id (an entity
\* visited later under the same id takes the entry over); titles that are not
\* series keep their episodes untouched and unindexed.
C11_EpisodeIds ==
  [][Normalized =>
      LET old == Walked(catalog[1])
          new == ret'.titles IN
      /\ \A p \in EpisodePlaces(new) :
           LET t == new[p[1]]
               o == Deref(old, p)
               e == Deref(new, p) IN
           /\ e.id = IF o.id \in {"", undefined}
                     THEN Str(t.id) \o "_s" \o ToString(p[2]) \o "e"
                            \o ToString(p[3])
                     ELSE o.id
           /\ e.__seriesId = t.id
           /\ e.__seasonIndex = <<p[2] - 1>>
           /\ e.__epIndex = <<p[3] - 1>>
           /\ e.id \in DOMAIN byId'
           /\ byId'[e.id].id = e.id
           /\ (ret'.refs[e.id] = p \/ Before(p, ret'.refs[e.id]))
      /\ \A i \in 1..Len(new) :
           new[i].type # "series" =>
             /\ new[i] = old[i]
             /\ \A k \in DOMAIN ret'.refs : ret'.refs[k][1] = i
                                            => ret'.refs[k] = <<i>>
  ]_vars

\* a run over [s1 with an id-less and an explicit-id episode, m1 a film that
\* carries episodes]
C11_Witness ==
  /\ call.op = "normalizeCatalog" /\ ~ret.threw
  /\ {"s1", "s1_s1e1", "x1", "m1"} = DOMAIN byId
  /\ byId["s1_s1e1"].__seriesId = "s1"
  /\ byId["x1"].__epIndex = <<1>>
  /\ Len(byId["m1"].seasons.items[1].episodes.items) = 2

\* every place the walk stores in the index: the titles and the episodes of
\* the series titles
Places(titles) ==
  { <<i>> : i \in 1..Len(titles) } \cup EpisodePlaces(titles)

\* C12: after normalizeCatalog returns, the index holds exactly one entry per
\* title and per episode of a series title: the number of keys is the number
\* of titles plus the number of those episodes, and every one of these
\* entities is the entry of its own id.
C12_OneEntryPerEntity ==
  (call.op = "normalizeCatalog" /\ ~ret.threw) =>
    /\ Cardinality(DOMAIN byId) = Cardinality(Places(ret.titles))
    /\ \A p \in Places(ret.titles) : ret.refs[Deref(ret.titles, p).id] = p

\* C13: running normalizeCatalog again over the document a returning run has
\* already mutated returns the same titles (ids and back-references), the
\* same keys and the same entity under every key, and changes the document
\* no further.
C13_Idempotent ==
  [][(call.op = "normalizeCatalog" /\ ~ret.threw /\ Normalized) =>
       /\ ret'.titles = ret.titles
       /\ DOMAIN byId' = DOMAIN byId
       /\ \A k \in DOMAIN byId : byId'[k] = byId[k] /\ ret'.refs[k] = ret.refs[k]
       /\ catalog' = catalog
  ]_vars

\* a second returning run over a document with derived and explicit ids
C13_Witness ==
  /\ call = Call("normalizeCatalog", <<2>>) /\ ~ret.threw
  /\ {"s1_s1e1", "x1", "s2_s2e1"} \subseteq DOMAIN byId
  /\ byId["s2_s2e1"].__seasonIndex = <<1>>

\* C14: normalizeCatalog never throws: over a document with no titles field,
\* with titles, seasons or episodes absent or not arrays, or with a null
\* title, season or episode, the call returns.
C14_NeverThrows ==
  call.op = "normalizeCatalog" => ~ret.threw

-----------------------------------------------------------------------------
(* Properties of the loop scheduler *)

\* the last step was a handler that ran initLoopQueue
InitLoopQueueRan ==
  \/ call.op = "toggleLoopShuffle"
  \/ call.op = "loadData" /\ ~ret.error

\* the queue items the rotation references of the catalog resolve to
Resolved ==
  IF LoopOf(catalog) = <<>> THEN <<>>
  ELSE ResolveAll(byId, LoopOf(catalog)[1].rotationItems.items)

\* C15: every call of initLoopQueue, on every path, leaves index = 0,
\* lastAdAt = 0 and playingAd = false, and leaves the queue empty exactly
\* when no rotation reference resolved.
C15_InitResets ==
  InitLoopQueueRan =>
    /\ loop.index = 0
    /\ loop.lastAdAt = 0
    /\ ~loop.playingAd
    /\ (loop.queue = <<>>) <=> (Resolved = <<>>)

\* the rotation references of the catalog, <<>> when it has none
RotationItems ==
  IF LoopOf(catalog) = <<>> THEN <<>>
  ELSE LoopOf(catalog)[1].rotationItems.items

\* the reference names a title or an episode that the index holds
Known(it) ==
  /\ it.js = "object"
  /\ it.refType \in {"title", "episode"}
  /\ it.refId \in DOMAIN byId

ConfiguredFreq == LoopOf(catalog)[1].adFrequencyMins

\* the step is a call of playNextLoop
PlayNextLoopStep == call'.op = "playNextLoop" /\ now' = now

\* C17: when adFrequencyMins is 0 or not configured, shouldPlayAd is false
\* at every time and the scheduler is never in an ad break.
C17_ZeroFrequencyNoAds ==
  (LoopOf(catalog) # <<>> /\ ConfiguredFreq \in {<<>>, <<0>>}) =>
    /\ ~shouldPlayAd(catalog, loop, now)
    /\ ~loop.playingAd

\* C18: shouldPlayAd is true exactly when the configured adFrequencyMins is
\* above 0 and now - lastAdAt >= adFrequencyMins * 60000; a negative
\* frequency yields false.
C18_ShouldPlayAdIff ==
  LoopOf(catalog) # <<>> =>
    (shouldPlayAd(catalog, loop, now) <=>
       /\ ConfiguredFreq # <<>>
       /\ ConfiguredFreq[1] > 0
       /\ now - loop.lastAdAt >= ConfiguredFreq[1] * 60000)

\* some configured sponsored ad has a playable source
HasPlayableAd ==
  /\ LoopOf(catalog) # <<>>
  /\ \E i \in 1..Len(LoopOf(catalog)[1].sponsoredAds.items) :
       LET ad == LoopOf(catalog)[1].sponsoredAds.items[i] IN
       /\ ad.js = "object"
       /\ (~Falsy(ad.muxAdPlaybackId) \/ ~Falsy(ad.mediaUrl))

\* C19: a call of playNextLoop made while playingAd is false, shouldPlayAd
\* is true and some configured sponsored ad has a playable source enters the
\* ad break: playingAd becomes true, lastAdAt becomes now, index and queue
\* stay as they were.
C19_EntersAdBreak ==
  [][(PlayNextLoopStep /\ ~loop.playingAd /\ shouldPlayAd(catalog, loop, now)
        /\ HasPlayableAd) =>
       loop' = [loop EXCEPT !.playingAd = TRUE, !.lastAdAt = now]
  ]_vars

\* q is p with its items in some order
IsPermutation(p, q) ==
  /\ Len(p) = Len(q)
  /\ \A x \in {p[i] : i \in 1..Len(p)} :
       Cardinality({i \in 1..Len(p) : p[i] = x})
         = Cardinality({i \in 1..Len(q) : q[i] = x})

\* C20: a call of playNextLoop on a non-empty queue that does not enter the
\* ad break leaves playingAd false, index = (index + 1) mod the queue length
\* and lastAdAt as it was, and keeps the queue unless the new index is 0 and
\* shuffle is on, when the queue is a reshuffle of itself; a call made during
\* an ad break never enters another one.
C20_AdvanceStep ==
  [][(PlayNextLoopStep /\ Len(loop.queue) > 0) =>
       /\ loop.playingAd => ret'.ad = <<>>
       /\ ret'.ad = <<>> =>
            /\ ~loop'.playingAd
            /\ loop'.index = (loop.index + 1) % Len(loop.queue)
            /\ loop'.lastAdAt = loop.lastAdAt
            /\ loop'.shuffle = loop.shuffle
            /\ IF loop'.index = 0 /\ loop.shuffle
               THEN IsPermutation(loop.queue, loop'.queue)
               ELSE loop'.queue = loop.queue
  ]_vars

\* playNextLoop wrapped a queue of three to index 0 with shuffle on, after an
\* ad break had been taken
C20_Witness ==
  /\ call.op = "playNextLoop" /\ ret.ad = <<>>
  /\ Len(loop.queue) = 3 /\ loop.index = 0 /\ loop.shuffle
  /\ loop.lastAdAt > 0 /\ ~loop.playingAd

\* C21: a call of playNextLoop made while the queue is empty changes nothing
\* of state.loop: queue, index, lastAdAt and playingAd are as before,
\* whatever ads and ad frequency the catalog configures.
C21_IdleNoOp ==
  [][(PlayNextLoopStep /\ loop.queue = <<>>) => loop' = loop]_vars

\* C22: with shuffle on and a queue of length N at index 0, after exactly N
\* calls of playNextLoop none of which entered an ad break the index is 0
\* again and the queue is a permutation of the queue before the calls; in
\* every state in between the queue holds the same items.
C22_CycleIsPermutation ==
  (loop.shuffle /\ ~hist.ad /\ hist.n <= Len(hist.queue0)) =>
    /\ IsPermutation(hist.queue0, loop.queue)
    /\ (hist.n = Len(hist.queue0) /\ hist.n > 0) => loop.index = 0

\* three calls took a shuffled queue of three around, and the reshuffle at
\* the wrap changed the order
C22_Witness ==
  /\ loop.shuffle /\ ~hist.ad
  /\ Len(hist.queue0) = 3 /\ hist.n = 3
  /\ loop.index = 0
  /\ loop.queue # hist.queue0

\* C23: whenever the Loop page shows a current queue item without a
\* playbackId, a call of playNextLoop is on its way without any user action:
\* the skip timer of attachLoopPlayerListeners is set.
C23_UnplayableIsSkipped ==
  (view = "page" /\ ShowsUnplayable(catalog, loop, route)) =>
    loopPlayer.skipPending

\* the step is the ended or the error listener of #loopPlayer
LoopPlayerEventStep == call'.op \in {"loopEnded", "loopError"} /\ now' = now

\* C24: ended and error of the loop player are handled alike: from the same
\* state.loop and clock, what an ended event leaves (index, playingAd,
\* lastAdAt, queue, ad shown) is something an error event can leave and the
\* other way round, and both are outcomes of playNextLoop.
C24_EndedLikeError ==
  [][LoopPlayerEventStep =>
       LET other == IF call'.op = "loopEnded" THEN "error" ELSE "ended"
           o == [loop |-> loop', ad |-> ret'.ad] IN
       /\ o \in loopPlayerListener(other, catalog, loop, now)
       /\ o \in playNextLoop(catalog, loop, now)
  ]_vars

\* an error event of the loop player moved the rotation on
C24_Witness ==
  /\ call.op = "loopError" /\ ret.ad = <<>>
  /\ loop.index = 1 /\ ~loop.playingAd /\ hist.n = 1

\* C25: toggleLoopShuffle rebuilds the loop state and takes effect: after it
\* the queue is the rotation resolved again from the catalog, index = 0,
\* lastAdAt = 0, playingAd = false, state.loop.shuffle is the negation of
\* what it was, and the queue is in catalog order unless the new flag is set.
C25_ToggleTakesEffect ==
  [][(call'.op = "toggleLoopShuffle" /\ now' = now) =>
       /\ loop'.shuffle = ~loop.shuffle
       /\ loop'.index = 0 /\ loop'.lastAdAt = 0 /\ ~loop'.playingAd
       /\ IsPermutation(Resolved, loop'.queue)
       /\ ~loop'.shuffle => loop'.queue = Resolved
  ]_vars

-----------------------------------------------------------------------------
(* Properties of boot *)

\* boot() has just run under the configuration and network in call.args
Booted == pc = "done" /\ call.op = "loadData"

\* the fallback is configured and fetching it succeeds
FallbackOk(cfg, env) ==
  /\ cfg.CATALOG_URL_FALLBACK # ""
  /\ env[cfg.CATALOG_URL_FALLBACK].kind = "ok"

\* the manifest is configured, fetched, and the catalog it names is fetched
ManifestChainOk(cfg, env) ==
  /\ cfg.MANIFEST_URL # ""
  /\ env[cfg.MANIFEST_URL].kind = "ok"
  /\ env[cfg.MANIFEST_URL].body[1].js = "object"
  /\ env[CatalogUrlOf(cfg, env[cfg.MANIFEST_URL].body[1])].kind = "ok"

\* C26: when the fallback catalog URL is configured and fetching it succeeds,
\* the fetch returns a catalog whatever the manifest step did; it raises only
\* when no URL is configured or every URL of the chain failed.
C26_FallbackSuffices ==
  Booted =>
    LET cfg == call.args[1]
        env == call.args[2] IN
    /\ FallbackOk(cfg, env) => ret.fetched /\ catalog # <<>>
    /\ ~ret.fetched => ~FallbackOk(cfg, env) /\ ~ManifestChainOk(cfg, env)

\* the manifest could not be fetched and the fallback's catalog was loaded
C26_Witness ==
  /\ Booted
  /\ call.args[1] = Config(ManifestUrl, FallbackUrl)
  /\ call.args[2][ManifestUrl].kind = "reject"
  /\ ret.fetched
  /\ catalog = <<normalizeCatalog(DocB).doc>>

\* every fetch of the network fails
AllFetchesFail(env) == \A u \in DOMAIN env : env[u].kind # "ok"

\* C27: when every fetch fails during boot, the error screen is the view
\* displayed once boot has completed, and no later render replaces it.
C27_ErrorScreenStays ==
  [][ /\ (pc = "boot" /\ call'.op = "loadData" /\ AllFetchesFail(call'.args[2]))
          => view' = "error"
      /\ (pc = "done" /\ view = "error") => view' = "error" ]_vars

-----------------------------------------------------------------------------
(* Properties of the featured selection *)

\* the first present field of the catalog, in the order of FeaturedFields
ExplicitList ==
  IF catalog = <<>> THEN Absent
  ELSE LET c == catalog[1]
           P == { i \in 1..Len(FeaturedFields) :
                    c[FeaturedFields[i]].js # "undefined" } IN
       IF P = {} THEN Absent
       ELSE c[FeaturedFields[CHOOSE i \in P : \A j \in P : i <= j]]

\* a reference resolved against the index, <<>> when it does not resolve; an
\* inline object stands for itself
InIndex(it) ==
  IF it.js = "null" THEN <<>>
  ELSE IF it.js = "string" THEN MapGet(byId, it.value)
  ELSE IF ~Lacks(it, "refId") THEN MapGet(byId, it.refId)
  ELSE IF ~Lacks(it, "id") THEN MapGet(byId, it.id)
  ELSE <<it>>

RECURSIVE EachInIndex(_)
EachInIndex(its) ==
  IF its = <<>> THEN <<>> ELSE InIndex(Head(its)) \o EachInIndex(Tail(its))

FeaturedStep == pc = "done" /\ call.op = "featuredItems"

\* C28: with a non-empty explicit featured list (the first present field of
\* featuredTitles, featured, hero, heroItems, featuredItems), featuredItems
\* is the list's references resolved against the index, in order, without
\* those that do not resolve, an {id} whose id is not indexed among them.
C28_UnresolvedDropped ==
  (FeaturedStep /\ ExplicitList.js = "array" /\ Len(ExplicitList.items) > 0)
    => ret.featured = EachInIndex(ExplicitList.items)

\* as InIndex, but an object with an id that is not indexed stands for itself
InIndexOrInline(it) ==
  IF it.js = "object" /\ Lacks(it, "refId") /\ ~Lacks(it, "id")
     /\ it.id \notin DOMAIN byId
  THEN <<it>>
  ELSE InIndex(it)

RECURSIVE EachInIndexOrInline(_)
EachInIndexOrInline(its) ==
  IF its = <<>> THEN <<>>
  ELSE InIndexOrInline(Head(its)) \o EachInIndexOrInline(Tail(its))

\* C28 (amended): with a non-empty explicit featured list (the first present
\* field), featuredItems is the list's references resolved against the
\* index, in order; null entries, id strings and {refId} references that do
\* not resolve are dropped, and an object whose id is not indexed is kept as
\* an inline item.
C28_ResolvedOrInline ==
  (FeaturedStep /\ ExplicitList.js = "array" /\ Len(ExplicitList.items) > 0)
    => ret.featured = EachInIndexOrInline(ExplicitList.items)

\* the list of a later field is used, its unknown {id} is kept and its
\* resolvable id string is resolved
C28_Witness ==
  /\ FeaturedStep
  /\ catalog[1].featuredTitles = Absent
  /\ catalog[1].hero = Arr(<<IdRef("zz"), StrRef("f2")>>)
  /\ ret.featured = <<IdRef("zz"), byId["f2"]>>

\* C29: sortFeatured returns its input in ascending order of rank
\* (featuredOrder, else featuredRank, else rank, else 9999), items of equal
\* rank in their input order; the result is a permutation of the input, and
\* the input sequence is left in its order.
C29_SortedStablePermutation ==
  FeaturedStep =>
    LET in == ret.featured
        out == ret.sorted
        n == Len(in) IN
    /\ ret.items = in
    /\ Len(out) = n
    /\ \E p \in [1..n -> 1..n] :
         /\ \A i, j \in 1..n : p[i] = p[j] => i = j
         /\ \A i \in 1..n : out[i] = in[p[i]]
         /\ \A i, j \in 1..n :
              i < j => \/ Rank(out[i]) < Rank(out[j])
                       \/ Rank(out[i]) = Rank(out[j]) /\ p[i] < p[j]

\* rank 0 goes first, the two items of rank 2 keep their order
C29_Witness ==
  /\ FeaturedStep
  /\ Len(ret.featured) = 3
  /\ ret.featured = <<byId["f1"], byId["f5"], byId["f3"]>>
  /\ ret.sorted = <<byId["f5"], byId["f1"], byId["f3"]>>
  /\ ret.items = ret.featured

-----------------------------------------------------------------------------
(* Properties of the entity index *)

\* C30: the entity index changes only in a loadData whose fetch returned a
\* catalog, and then it is the index normalizeCatalog built from that
\* catalog; recordProgress, getResumeFor, continueWatchingItems,
\* featuredItems, playNextLoop, toggleLoopShuffle (with its initLoopQueue)
\* and render add, remove and rebind no key.
C30_IndexReplacedOnlyByLoad ==
  [][ byId' # byId =>
        /\ pc = "boot"
        /\ call'.op = "loadData"
        /\ ret'.fetched
        /\ byId' = normalizeCatalog(catalog'[1]).byId ]_vars

\* a loaded index after a shuffle toggle rebuilt the queue from it
C30_Witness ==
  /\ pc = "done"
  /\ call.op = "toggleLoopShuffle"
  /\ Len(loop.queue) > 0
  /\ byId = normalizeCatalog(catalog[1]).byId
  /\ DOMAIN byId # {}

-----------------------------------------------------------------------------
(* Properties across the subsystems *)

\* the step is boot()'s loadData
LoadStep == pc = "boot" /\ call'.op = "loadData"

\* C31: a load replaces the catalog, the titles, the index and the loop queue
\* together, all from the one fetched document, and a load that ends in the
\* error screen leaves all of them as they were.
C31_LoadIsAllOrNothing ==
  [][ LoadStep =>
        IF ret'.error
        THEN /\ catalog' = catalog
             /\ TitlesOf(catalog') = TitlesOf(catalog)
             /\ byId' = byId
             /\ loop'.queue = loop.queue
        ELSE /\ catalog' # <<>>
             /\ ~normalizeCatalog(catalog'[1]).threw
             /\ byId' = normalizeCatalog(catalog'[1]).byId
             /\ loop' \in initLoopQueue(catalog', byId', loop) ]_vars

\* the log records continueWatchingItems has to return: ratio below 0.92 and
\* refId a key of the index
Resumable(x) == Below92(RatioOr0(x)) /\ x.refId \in DOMAIN byId

ContinueWatchingStep == call'.op = "continueWatchingItems" /\ now' = now

\* C32: continueWatchingItems leaves the persisted log as it is, records of
\* entities missing from the index included, and returns every record under
\* 0.92 whose entity the index of the moment holds, whenever it was recorded.
C32_ReadTimeFilterOnly ==
  [][ ContinueWatchingStep =>
        /\ storage' = storage
        /\ ~ret'.threw
        /\ \A i \in 1..Len(Log) :
             Resumable(Log[i]) =>
               \E j \in 1..Len(ret'.value) : ret'.value[j].meta = Log[i] ]_vars

\* after the load, a record written before it is returned with its entity,
\* and a record of an entity the index lacks is still in the log
C32_Witness ==
  /\ pc = "done"
  /\ call.op = "continueWatchingItems"
  /\ \E j \in 1..Len(ret.value) :
       /\ ret.value[j].meta.refId = "t1"
       /\ ret.value[j].meta.updatedAt < now
  /\ \E i \in 1..Len(Log) :
       Log[i].refId = "t9" /\ Below92(RatioOr0(Log[i]))

\* C33: continueWatchingItems returns exactly the log records with ratio
\* below 0.92 whose refId is a key of the index, each with the entity stored
\* under its refId, in descending order of updatedAt.
C33_ExactlyResumable ==
  (call.op = "continueWatchingItems" /\ ~ret.threw) =>
    LET out == ret.value IN
    /\ \A j \in 1..Len(out) :
         /\ \E i \in 1..Len(Log) : Log[i] = out[j].meta
         /\ Resumable(out[j].meta)
         /\ out[j].obj = byId[out[j].meta.refId]
    /\ \A i \in 1..Len(Log) :
         Resumable(Log[i]) => \E j \in 1..Len(out) : out[j].meta = Log[i]
    /\ Len(out) = Cardinality({ i \in 1..Len(Log) : Resumable(Log[i]) })
    /\ \A i, j \in 1..Len(out) :
         i < j => out[i].meta.updatedAt >= out[j].meta.updatedAt

\* two records of indexed entities written at different times are returned,
\* the newer first, and a record at 0.92 is left out
C33_Witness ==
  /\ call.op = "continueWatchingItems"
  /\ Len(ret.value) = 2
  /\ ret.value[1].meta.updatedAt > ret.value[2].meta.updatedAt
  /\ Len(Log) > 2

\* C34: whenever the loop queue is non-empty, index is a position of it, so
\* currentLoopItem returns an item.
C34_IndexInQueue ==
  Len(loop.queue) > 0 =>
    /\ 0 <= loop.index
    /\ loop.index < Len(loop.queue)
    /\ currentLoopItem(loop) # <<>>

\* the last item of a three-item queue is current after advances
C34_Witness ==
  /\ call.op \in {"playNextLoop", "loopEnded", "loopError"}
  /\ Len(loop.queue) = 3
  /\ loop.index = 2
  /\ currentLoopItem(loop) = <<loop.queue[3]>>

\* C35: when the current content item ends or errors on a non-empty queue,
\* at most one ad break comes before index advances by one modulo the queue
\* length: once an ad break has been entered for the item, the next end of
\* the item advances (the ad frequency being positive).
C35_AdvancesAfterOneBreak ==
  [][ ( /\ LoopPlayerEventStep
        /\ Len(loop.queue) > 0
        /\ FreqMins(catalog) > 0
        /\ hist.breaks >= 1 )
      => /\ ~loop'.playingAd
         /\ loop'.index = (loop.index + 1) % Len(loop.queue) ]_vars

\* C36: during an ad break, ended or error of the ad player clears playingAd
\* and leaves index and lastAdAt as they are, the item at index being shown
\* next; playNextLoop, which is what Skip Ad calls, clears playingAd and
\* advances index by one modulo the queue length.
C36_LeavingAdBreak ==
  [][ (view = "ad" /\ loop.playingAd /\ now' = now) =>
        /\ call'.op = "adEnded" =>
             /\ ~loop'.playingAd
             /\ loop'.index = loop.index
             /\ loop'.lastAdAt = loop.lastAdAt
             /\ loop'.queue = loop.queue
        /\ (call'.op \in {"playNextLoop", "skipAd"} /\ Len(loop.queue) > 0) =>
             /\ ~loop'.playingAd
             /\ loop'.index = (loop.index + 1) % Len(loop.queue) ]_vars

\* the step runs playNextLoop: a call of it, or ended / error of #loopPlayer
AdvanceStep ==
  call'.op \in {"playNextLoop", "loopEnded", "loopError"} /\ now' = now

\* the step runs initLoopQueue: the load or a shuffle toggle
InitQueueStep == call'.op \in {"loadData", "toggleLoopShuffle"} /\ now' = now

\* C37: lastAdAt is written only by initLoopQueue, to 0, and by playNextLoop
\* entering an ad break, to now; and the first playNextLoop after an
\* initLoopQueue that built a non-empty queue enters the ad break, index
\* unchanged, unless the ad it picks has no playable source.
C37_FirstAdvanceIsAdBreak ==
  [][ /\ loop'.lastAdAt # loop.lastAdAt =>
           \/ InitQueueStep /\ loop'.lastAdAt = 0
           \/ /\ AdvanceStep
              /\ ~loop.playingAd /\ loop'.playingAd
              /\ loop'.lastAdAt = now
      /\ (loop'.playingAd /\ ~loop.playingAd) => AdvanceStep
      /\ (AdvanceStep /\ hist.n = 0 /\ ~hist.ad /\ Len(loop.queue) > 0) =>
           \/ loop' = [loop EXCEPT !.playingAd = TRUE, !.lastAdAt = now]
           \/ \E ad \in pickLoopAd(catalog) : ~Playable(ad) ]_vars

\* the first item ended a minute or more after the page started, with no
\* advance made since the queue was built: an ad break at index 0
C37_Witness ==
  /\ call.op = "loopEnded"
  /\ loop.playingAd
  /\ loop.index = 0
  /\ loop.lastAdAt = now
  /\ hist.n = 0 /\ hist.breaks = 1
  /\ Len(loop.queue) = 3
  /\ now > StartNow

LoopOps ==
  {"loadData", "toggleLoopShuffle", "playNextLoop", "loopEnded", "loopError",
   "adEnded"}

\* C38: no loop operation or event (initLoopQueue in the load and in the
\* shuffle toggle, playNextLoop, ended / error of the loop player and of the
\* ad player) changes the persisted progress log, and recordProgress changes
\* no field of state.loop.
C38_StoreAndLoopIndependent ==
  [][ /\ (call'.op \in LoopOps /\ now' = now) => storage' = storage
      /\ (call'.op = "recordProgress" /\ now' = now) => loop' = loop
      /\ storage' # storage => call'.op = "recordProgress"
      /\ loop' # loop => call'.op \in LoopOps ]_vars

\* progress was recorded while the rotation stood at its second item, and
\* the log and the rotation both are as they were left
C38_Witness ==
  /\ call.op = "recordProgress"
  /\ Len(Log) = 1
  /\ Len(loop.queue) = 3
  /\ loop.index = 1
  /\ loop.lastAdAt > 0

\* C39: an accepted recordProgress call for a key puts the new record at the
\* head and leaves the records of the other keys as they were, fields,
\* updatedAt and order; one of them is dropped only when there were 30 of
\* them, and it is the one at the tail.
C39_OthersUntouched ==
  [][ (Accepted(call') /\ now' = now) =>
        LET a == call'.args
            Other(x) == ~(x.refType = a.refType /\ x.refId = a.refId)
            others == SelectSeq(Log, Other)
            new == Log' IN
        /\ Len(new) >= 1
        /\ ~Other(new[1])
        /\ Len(others) <= LogCap
        /\ Len(others) < LogCap => Tail(new) = others
        /\ Len(others) = LogCap =>
             Tail(new) = SubSeq(others, 1, LogCap - 1) ]_vars

\* a key recorded on a log of 30 other keys pushed the tail record out, and
\* the 29 before it keep their places behind the new record
C39_Witness ==
  /\ Accepted(call)
  /\ Len(Log) = LogCap
  /\ Log[1].refId = call.args.refId
  /\ Log[2] = FullLog.items[1]
  /\ Log[LogCap] = FullLog.items[LogCap - 1]

\* C40: while shuffle is disabled the loop queue is the resolvable rotation
\* references of the catalog in document order; playNextLoop and the ad
\* events leave it as it is, and only the load and the shuffle toggle
\* replace it.
C40_UnshuffledQueueIsStable ==
  /\ [](~loop.shuffle => loop.queue = Resolved)
  /\ [][ /\ ( /\ ~loop.shuffle
              /\ call'.op \in {"playNextLoop", "loopEnded", "loopError",
                               "adEnded", "skipAd"}
              /\ now' = now )
            => loop'.queue = loop.queue
         /\ (~loop.shuffle /\ loop'.queue # loop.queue)
            => call'.op \in {"loadData", "toggleLoopShuffle"} ]_vars

\* without shuffle, the rotation has wrapped to its first item after an ad
\* break, the queue still in document order
C40_Witness ==
  /\ ~loop.shuffle
  /\ call.op \in {"playNextLoop", "loopEnded", "loopError"}
  /\ Len(loop.queue) = 3
  /\ loop.index = 0
  /\ hist.n >= 3
  /\ loop.lastAdAt > 0
  /\ loop.queue = Resolved

====
